---- MODULE Spec2Model ----
(***************************************************************************)
(* easy-tile: the reactive stores (RoomModel, WallModel), their            *)
(* persistence in localStorage, the scene's mouse handling (drag           *)
(* detection, click picking, hover tracking), the objects of the scene     *)
(* (wall meshes and their materials, perimeter lines, the camera and its   *)
(* look controls), the throttled inputs of the wall panel, and the pure    *)
(* functions of lib/ (tile counts, texture repeats, perimeter dashes).     *)
(*                                                                         *)
(* JavaScript null is the string Null where the other values are strings   *)
(* (a wall id) and the empty sequence where they are not (a position, a    *)
(* parsed record).  Room dimensions are exact decimals m / 1000^k.         *)
(***************************************************************************)
EXTENDS Integers, Sequences, FiniteSets, TLC

VARIABLES
    phase,              \* boot position: new, constructed, loaded, running
    room,               \* RoomModel: width, height, length
    selectedWallId,     \* WallModel.selectedWallId
    hoveredWallId,      \* WallModel.hoveredWallId
    wallConfigs,        \* WallModel.wallConfigs
    storage,            \* localStorage, one item per key
    nFail,              \* how many localStorage.setItem calls have thrown
    lastOp,             \* the operation that ran last, its inputs and its write
    mouseDownPosition,  \* scene.ts
    hasDragged,         \* scene.ts
    lastHoveredWallId,  \* scene.ts
    isDragging,         \* createOrbitControls
    inside,             \* the pointer is over the scene container
    pressTarget,        \* where the button that is down was pressed
    clickPending,       \* a click event follows the mouseup just dispatched
    gesture,            \* the press that began on the container and whose
                        \* click is still to come: where it began, and whether
                        \* a mousemove since was far from there
    sceneMeshes,        \* scene.children: how many wall meshes of each id
    sceneGroups,        \* scene.children: how many perimeter groups of each wall
    wallMeshes,         \* scene.ts: the map, each mesh by its material
    perimeterLines,     \* scene.ts: the map, each group by its visible flag
    cameraPosition,     \* camera.position
    materialMaps,       \* scene.ts: what each wall's original material and
                        \* its hover clone show, and the promise of the
                        \* composite texture
    rotationX,          \* createOrbitControls: pitch
    rotationY,          \* createOrbitControls: yaw
    previousMousePosition, \* createOrbitControls
    dragSpan,           \* the events since the last mousedown on the container,
                        \* up to the next mouseup or mouseleave: whether that
                        \* span is open, and where its last event was
    now,                \* Date.now(), in milliseconds
    lastCall,           \* throttle: the closure of the throttled setSpacing
    timeoutId,          \* throttle: the timer set last, fired or not
    timers,             \* window.setTimeout: the timers set and not yet fired
    throttleLog,        \* the calls of the throttled setSpacing on this page:
                        \* the arguments of the last call, and when and with
                        \* what arguments setSpacing was invoked last
    groutThrottle,      \* throttle: the closure of the throttled setGroutColor
                        \* (lastCall, timeoutId) and the timers it set
    calc                \* the last call of a function of lib/ or of a builder
                        \* of scene.ts: its name, its arguments, what it returned

vars == <<phase, room, selectedWallId, hoveredWallId, wallConfigs, storage,
          nFail, lastOp, mouseDownPosition, hasDragged, lastHoveredWallId,
          isDragging, inside, pressTarget, clickPending, gesture,
          sceneMeshes, sceneGroups, wallMeshes, perimeterLines, cameraPosition,
          materialMaps, rotationX, rotationY, previousMousePosition, dragSpan,
          now, lastCall, timeoutId, timers, throttleLog, groutThrottle, calc>>

viewVars == <<sceneMeshes, sceneGroups, wallMeshes, perimeterLines, cameraPosition,
              materialMaps>>
lookVars == <<rotationX, rotationY, previousMousePosition, dragSpan>>
throttleVars == <<now, lastCall, timeoutId, timers, throttleLog, groutThrottle>>

roomVars == <<room>>
wallVars == <<selectedWallId, hoveredWallId, wallConfigs>>
sceneVars == <<mouseDownPosition, hasDragged, lastHoveredWallId, isDragging>>
pointerVars == <<inside, pressTarget, clickPending, gesture>>

(***************************************************************************)
(* Bounds of the model.                                                    *)
(***************************************************************************)
\* Dimensions are m / 1000^k with k <= MaxExp: a load that would divide
\* further is not taken.
MaxExp == 2
\* At most MaxFail writes to localStorage throw in one behaviour.
MaxFail == 1
\* A drag that would turn the camera more than MaxTurn steps of 0.005
\* radians away from straight ahead (or, for the pitch, from straight up or
\* down) is not taken.
MaxTurn == 6
\* The clock stops at MaxTime milliseconds.
MaxTime == 600
\* The clock stops at MaxEditTime where selections change between the edits.
MaxEditTime == 300
\* At most MaxTimers timers are set at a time there.
MaxTimers == 2
\* The walls a perimeter is built for are at most MaxSide centimetres a side.
MaxSide == 30
\* Tiles are counted along dimensions of at most MaxCount.
MaxCount == 12

Null == "null"

(***************************************************************************)
(* Numbers: the decimal m / 1000^k, in lowest form.                        *)
(***************************************************************************)
RECURSIVE Pow1000(_)
Pow1000(k) == IF k = 0 THEN 1 ELSE 1000 * Pow1000(k - 1)

RECURSIVE Norm(_, _)
Norm(m, k) ==
    IF m = 0 THEN [k |-> 0, m |-> 0]
    ELSE IF k > 0 /\ m % 1000 = 0 THEN Norm(m \div 1000, k - 1)
    ELSE [k |-> k, m |-> m]

Num(n) == [k |-> 0, m |-> n]
Milli(n) == Norm(n, 1)

\* x / 1000
Div1000(x) == Norm(x.m, x.k + 1)

\* x > n, for an integer n >= 0
GreaterThan(x, n) ==
    LET whole == x.m \div Pow1000(x.k)
        rest == x.m % Pow1000(x.k)
    IN  whole > n \/ (whole = n /\ rest > 0)

IsPositive(x) == x.m > 0

(***************************************************************************)
(* lib/storage.ts                                                          *)
(***************************************************************************)
ROOM == "easy-tile:room"
WALLS == "easy-tile:walls"
SELECTED_WALL == "easy-tile:selected-wall"
STORAGE_KEYS == {ROOM, WALLS, SELECTED_WALL}

\* An item of localStorage: no item, a text that is not JSON, the text
\* null, or the JSON text of a value.
Absent == [t |-> "absent"]
NotJson == [t |-> "bad"]
JsonNull == [t |-> "null"]
JsonOf(v) == [t |-> "json", v |-> v]

\* JSON.stringify of a value that may be null (<<>>)
JSONstringify(data) == IF data = <<>> THEN JsonNull ELSE JsonOf(data[1])

\* saveToStorage(key, data): setItem may throw, the exception is swallowed
\* and the item keeps its previous value.
saveToStorage(st, key, data, ok) ==
    IF ok THEN [st EXCEPT ![key] = JSONstringify(data)] ELSE st

\* loadFromStorage(key): null (<<>>) when the item is absent, when
\* JSON.parse throws, and when the text is the JSON null.
loadFromStorage(st, key) ==
    IF st[key].t = "json" THEN <<st[key].v>> ELSE <<>>

\* The outcomes of one setItem: it may throw while the budget lasts.
WriteOutcomes == IF nFail < MaxFail THEN {TRUE, FALSE} ELSE {TRUE}

\* How a call ends: it returned ("ok"), it returned after its catch block
\* logged an exception ("failed"), or an exception left it ("threw").
\* A function whose body is not within a try statement.
TryCatch_Rethrow(body) == body

\* try { body } catch (error) { console.error(...) }
TryCatch(body) == IF body = "threw" THEN "failed" ELSE body

\* localStorage.setItem, removeItem and clear return or throw.
StorageCall(ok) == IF ok THEN "ok" ELSE "threw"

\* JSON.parse throws on a text that is not JSON.
JSONparse(item) == IF item = NotJson THEN "threw" ELSE "ok"

\* How saveToStorage, removeFromStorage and clearStorage end: the one
\* storage call of each is within its try statement.
WriteResult(ok) == TryCatch(StorageCall(ok))

\* How loadFromStorage(key) ends: an absent item returns before the parse.
ReadResult(st, key) ==
    IF st[key] = Absent THEN "ok" ELSE TryCatch(JSONparse(st[key]))

Worst(results) ==
    IF "threw" \in results THEN "threw"
    ELSE IF "failed" \in results THEN "failed" ELSE "ok"

\* How the loads of a page load end, taken together
LoadResults(st) == Worst({ReadResult(st, key) : key \in STORAGE_KEYS})

(***************************************************************************)
(* types/room.types.ts, model/room.model.ts                                *)
(***************************************************************************)
DEFAULT_ROOM_DIMENSIONS ==
    [width |-> Num(3), height |-> Milli(2500), length |-> Num(4)]

Dims(w, h, l) == [width |-> w, height |-> h, length |-> l]

\* A migration test that looks at the width alone.
LooksLikeMillimetres_WidthOnly(stored) == GreaterThan(stored.width, 100)

\* The migration test of RoomModel.loadFromStorage
LooksLikeMillimetres(stored) ==
    \/ GreaterThan(stored.width, 100)
    \/ GreaterThan(stored.height, 100)
    \/ GreaterThan(stored.length, 100)

Migrated(stored) ==
    Dims(Div1000(stored.width), Div1000(stored.height), Div1000(stored.length))

\* RoomModel.loadFromStorage: the fields after the call
RoomAfterLoad(r, st) ==
    LET stored == loadFromStorage(st, ROOM)
    IN  IF stored = <<>> THEN r
        ELSE IF LooksLikeMillimetres(stored[1]) THEN Migrated(stored[1])
        ELSE stored[1]

\* RoomModel.loadFromStorage calls saveToStorage exactly on a migration
RoomLoadWrites(st) ==
    LET stored == loadFromStorage(st, ROOM)
    IN  stored # <<>> /\ LooksLikeMillimetres(stored[1])

\* RoomModel.saveToStorage
RoomSave(r, st, ok) == saveToStorage(st, ROOM, <<r>>, ok)

\* RoomModel.loadFromStorage: localStorage after the call
StorageAfterRoomLoad(r, st, ok) ==
    IF RoomLoadWrites(st) THEN RoomSave(RoomAfterLoad(r, st), st, ok) ELSE st

\* The load stays within the decimals the model represents.
Representable(r) ==
    r.width.k <= MaxExp /\ r.height.k <= MaxExp /\ r.length.k <= MaxExp

(***************************************************************************)
(* types/wall.types.ts, model/wall.model.ts                                *)
(***************************************************************************)
WallId == {"front", "back", "left", "right"}
MeshId == WallId \cup {"top", "bottom"}

DEFAULT_TILE_CONFIG ==
    [imageUrl |-> Null, tileWidth |-> 300, tileHeight |-> 300,
     spacing |-> 3, groutColor |-> "#cccccc"]

TileFields == {"imageUrl", "tileWidth", "tileHeight", "spacing", "groutColor"}

DefaultWallConfigs == [w \in WallId |-> DEFAULT_TILE_CONFIG]

\* An update that starts from the defaults: { ...DEFAULT_TILE_CONFIG, ...config }
Spread_OverDefaults(old, config) ==
    [f \in TileFields |-> IF f \in DOMAIN config THEN config[f] ELSE DEFAULT_TILE_CONFIG[f]]

\* { ...this.wallConfigs[wallId], ...config }, config a Partial<TileConfig>
Spread(old, config) ==
    [f \in TileFields |-> IF f \in DOMAIN config THEN config[f] ELSE old[f]]

\* WallModel.updateWallConfig: wallConfigs after the assignment
ConfigsAfterUpdate(configs, wallId, config) ==
    [configs EXCEPT ![wallId] = Spread(configs[wallId], config)]

\* WallModel.saveToStorage
WallSave(configs, st, ok) == saveToStorage(st, WALLS, <<configs>>, ok)

\* A saveSelectedWall that writes only a wall id, never null.
SaveSelectedWall_SkipNull(sel, st, ok) ==
    IF sel = Null THEN st ELSE saveToStorage(st, SELECTED_WALL, <<sel>>, ok)

\* WallModel.saveSelectedWall
SaveSelectedWall(sel, st, ok) ==
    saveToStorage(st, SELECTED_WALL, IF sel = Null THEN <<>> ELSE <<sel>>, ok)

\* WallModel.loadFromStorage: wallConfigs after the call
ConfigsAfterLoad(configs, st) ==
    LET storedConfigs == loadFromStorage(st, WALLS)
    IN  IF storedConfigs # <<>> THEN storedConfigs[1] ELSE configs

\* WallModel.loadFromStorage: selectedWallId after the call
SelectedAfterLoad(sel, st) ==
    LET storedSelected == loadFromStorage(st, SELECTED_WALL)
    IN  IF storedSelected # <<>> THEN storedSelected[1] ELSE sel

\* WallModel.selectedWallConfig
selectedWallConfig ==
    IF selectedWallId = Null THEN <<>>
    ELSE IF selectedWallId \in WallId THEN <<wallConfigs[selectedWallId]>>
    ELSE <<>>

(***************************************************************************)
(* The record of the last operation.                                       *)
(***************************************************************************)
\* No dispose() call on a material: of each mesh, how often updateRoom
\* disposed its original material and its hover clone.
NoDisposals == [id \in MeshId |-> [original |-> 0, hover |-> 0]]

Op(name, write, ray, pos) ==
    [op |-> name, write |-> write, ray |-> ray, pos |-> pos,
     wallId |-> Null, config |-> <<>>, read |-> "none",
     disposed |-> NoDisposals]

\* The record of a call that loads from localStorage
LoadOp(name, write, read) == [Op(name, write, <<>>, <<>>) EXCEPT !.read = read]

\* The record of a call of updateWallConfig(wallId, config)
WallOp(name, write, wallId, config) ==
    [Op(name, write, <<>>, <<>>) EXCEPT !.wallId = wallId, !.config = <<config>>]

StoreOp(name, write) == Op(name, write, <<>>, <<>>)

Failures(wrote, ok) == IF wrote /\ ~ok THEN nFail + 1 ELSE nFail

NoGesture == [active |-> FALSE, pos |-> <<>>, far |-> FALSE]

(***************************************************************************)
(* components/scene.ts: the objects updateRoom puts in the scene, the      *)
(* hover highlight, the perimeter indicator, and the three autoruns of     *)
(* initScene.                                                              *)
(*                                                                         *)
(* A map of scene.ts is a function over all its possible keys: "none"      *)
(* where the key is not in the map.  A mesh of wallMeshes is known by its  *)
(* material ("original": the material createWall gave it, "hover": the     *)
(* emissive clone), a group of perimeterLines by its visible flag.         *)
(***************************************************************************)
Neg(x) == [k |-> x.k, m |-> -x.m]

\* x / 2
Half(x) == Norm(500 * x.m, x.k + 1)

Plus(a, b) ==
    LET k == IF a.k > b.k THEN a.k ELSE b.k
    IN  Norm(a.m * Pow1000(k - a.k) + b.m * Pow1000(k - b.k), k)

Vec(x, y, z) == [x |-> x, y |-> y, z |-> z]

Origin == Vec(Num(0), Num(0), Num(0))

\* The numerators of the camera's height stay within the integers of the
\* model.
CameraRepresentable(r) == Half(r.height).k <= 3

\* No material: the wall has no mesh.
NoMaterial == [original |-> "none", hover |-> "none", promise |-> "none"]

\* The scene before initScene: no camera, nothing in the scene or the maps.
\* The functions of scene.ts read the tile configurations of the store
\* (configs); updateRoom reports the dispose() calls of its clearing
\* (disposed).
NoScene ==
    [sceneMeshes |-> [id \in MeshId |-> 0],
     sceneGroups |-> [w \in WallId |-> 0],
     wallMeshes |-> [id \in MeshId |-> "none"],
     perimeterLines |-> [w \in WallId |-> "none"],
     cameraPosition |-> <<>>,
     materialMaps |-> [w \in WallId |-> NoMaterial],
     configs |-> <<>>,
     disposed |-> NoDisposals]

TheScene ==
    [sceneMeshes |-> sceneMeshes,
     sceneGroups |-> sceneGroups,
     wallMeshes |-> wallMeshes,
     perimeterLines |-> perimeterLines,
     cameraPosition |-> cameraPosition,
     materialMaps |-> materialMaps,
     configs |-> wallConfigs,
     disposed |-> NoDisposals]

SetScene(s) ==
    \E after \in {s} :
        /\ sceneMeshes' = after.sceneMeshes
        /\ sceneGroups' = after.sceneGroups
        /\ wallMeshes' = after.wallMeshes
        /\ perimeterLines' = after.perimeterLines
        /\ cameraPosition' = after.cameraPosition
        /\ materialMaps' = after.materialMaps

\* What an operation leaves: the scene, and in lastOp the operation with
\* the dispose() calls that updateRoom made in it.
Reacted(op, s) ==
    \E after \in {s} :
        /\ sceneMeshes' = after.sceneMeshes
        /\ sceneGroups' = after.sceneGroups
        /\ wallMeshes' = after.wallMeshes
        /\ perimeterLines' = after.perimeterLines
        /\ cameraPosition' = after.cameraPosition
        /\ materialMaps' = after.materialMaps
        /\ lastOp' = [op EXCEPT !.disposed = after.disposed]

\* A clearing that empties the map and leaves its objects in the scene.
ClearedFromScene_MapOnly(count, map) == count

\* updateRoom, "Clear existing walls" and "Clear existing perimeter lines":
\* scene.remove of every object of the map
ClearedFromScene(count, map) ==
    [id \in DOMAIN count |-> IF map[id] # "none" THEN count[id] - 1 ELSE count[id]]

\* updateRoom, "Update camera position to be 1.8m from floor"
EyeLevel(height) ==
    LET halfHeight == Half(height)
        floorY == Neg(halfHeight)
    IN  Vec(Num(0), Plus(floorY, Milli(1800)), Num(0))

\* createWall, the material of an editable wall: with spacing 0 its map is
\* the image or the checkerboard; with a spacing it is a plain material of
\* the grout colour, and the composite texture is promised.  The promise
\* of a texture without an image is resolved when it is made, the one of a
\* texture with an image when the image has loaded or failed to.
MaterialCreated(config) ==
    IF config.spacing = 0
    THEN [original |-> IF config.imageUrl # Null THEN "image" ELSE "checkerboard",
          hover |-> "none", promise |-> "none"]
    ELSE [original |-> "grout", hover |-> "none",
          promise |-> IF config.imageUrl # Null THEN "loading" ELSE "resolved"]

\* createWall, the callback of .then: material.map = texture
TextureApplied(material) ==
    [material EXCEPT !.original = "composite", !.promise = "none"]

\* The callbacks of the promises that are resolved run when the task that
\* made them has ended, before any other event.
Microtasks(s) ==
    LET Settled(before) ==
            [before EXCEPT !.materialMaps =
                [w \in WallId |->
                    IF before.materialMaps[w].promise = "resolved"
                    THEN TextureApplied(before.materialMaps[w])
                    ELSE before.materialMaps[w]]]
    IN  CHOOSE after \in {Settled(before) : before \in {s}} : TRUE

\* updateRoom, "Clear existing walls": mesh.material.dispose() of every
\* mesh of the map
ClearedMaterials(disposed, map) ==
    [id \in MeshId |->
        IF map[id] = "none" THEN disposed[id]
        ELSE [disposed[id] EXCEPT ![map[id]] = @ + 1]]

\* updateRoom: the old objects leave the scene and the material each mesh
\* has is disposed, six walls and four perimeter groups are created (a
\* group is created hidden), the camera is put at eye level
updateRoom(s, r) ==
    LET meshes == ClearedFromScene(s.sceneMeshes, s.wallMeshes)
        groups == ClearedFromScene(s.sceneGroups, s.perimeterLines)
    IN  [sceneMeshes |-> [id \in MeshId |-> meshes[id] + 1],
         sceneGroups |-> [w \in WallId |-> groups[w] + 1],
         wallMeshes |-> [id \in MeshId |-> "original"],
         perimeterLines |-> [w \in WallId |-> "hidden"],
         cameraPosition |-> EyeLevel(r.height),
         materialMaps |-> [w \in WallId |-> MaterialCreated(s.configs[w])],
         configs |-> s.configs,
         disposed |-> ClearedMaterials(s.disposed, s.wallMeshes)]

\* updateHoverHighlight(hoveredWallId): the clone of a wall that is no
\* longer hovered is dropped and its original material put back; the
\* hovered wall gets a clone of its original material as it is then
updateHoverHighlight(s, hovered) ==
    LET Lit(before) ==
            LET Restores(id) ==
                    /\ id # "top" /\ id # "bottom" /\ id # hovered
                    /\ before.wallMeshes[id] = "hover"
                Clones(id) ==
                    hovered # Null /\ id = hovered /\ ~Restores(id)
                        /\ before.wallMeshes[id] = "original"
            IN  [before EXCEPT
                    !.wallMeshes =
                        [id \in MeshId |->
                            IF Restores(id) THEN "original"
                            ELSE IF Clones(id) THEN "hover"
                            ELSE before.wallMeshes[id]],
                    !.materialMaps =
                        [w \in WallId |->
                            IF Restores(w) THEN [before.materialMaps[w] EXCEPT !.hover = "none"]
                            ELSE IF Clones(w)
                            THEN [before.materialMaps[w] EXCEPT
                                     !.hover = before.materialMaps[w].original]
                            ELSE before.materialMaps[w]]]
    IN  CHOOSE after \in {Lit(before) : before \in {s}} : TRUE

\* updatePerimeterLine(store)
updatePerimeterLine(s, selected) ==
    [s EXCEPT !.perimeterLines =
        [w \in WallId |->
            IF s.perimeterLines[w] = "none" THEN "none"
            ELSE IF w = selected THEN "visible" ELSE "hidden"]]

\* The three autoruns of initScene after a store action: each runs again
\* when something it read has changed, and only then.  The first read the
\* room's dimensions and the four tile configurations, the second
\* hoveredWallId, the third selectedWallId.  Promises are made by updateRoom
\* only, and the ones it made resolved are settled when the action ends.
Reactions(s, rebuild, r, hovered, hoveredNew, selected, selectedNew) ==
    LET rebuilt == IF rebuild THEN updateRoom(s, r) ELSE s
        lit == IF hoveredNew # hovered
               THEN updateHoverHighlight(rebuilt, hoveredNew) ELSE rebuilt
        shown == IF selectedNew # selected
                 THEN updatePerimeterLine(lit, selectedNew) ELSE lit
    IN  IF rebuild THEN Microtasks(shown) ELSE shown

\* img.onload or img.onerror of createTileTextureWithSpacing, and the
\* callback of .then in createWall: the composite texture of a wall of the
\* present build becomes the map of the material createWall made, whatever
\* material the mesh has by then.
textureLoaded(wallId) ==
    /\ phase = "running" /\ ~clickPending
    /\ materialMaps[wallId].promise = "loading"
    /\ materialMaps' = [materialMaps EXCEPT ![wallId] = TextureApplied(@)]
    /\ lastOp' = [StoreOp("textureLoaded", "none") EXCEPT !.wallId = wallId]
    /\ UNCHANGED <<phase, roomVars, wallVars, storage, nFail, sceneVars, pointerVars,
                   sceneMeshes, sceneGroups, wallMeshes, perimeterLines, cameraPosition,
                   lookVars, throttleVars, calc>>

(***************************************************************************)
(* lib/three.ts, createOrbitControls: yaw and pitch.                       *)
(*                                                                         *)
(* An angle is counted in steps of 0.005 radians, the turn of one pixel.   *)
(* The yaw is a whole number of steps.  The pitch is a whole number of     *)
(* steps from 0 or, once it has been clamped, from pi/2 or from -pi/2.     *)
(***************************************************************************)
\* pi/2 and pi in steps of 0.005 radians, rounded down: 314.159.., 628.318..
QuarterTurn == 314
HalfTurn == 628

Pitch(base, steps) == [base |-> base, steps |-> steps]

Level == Pitch("0", 0)
StraightUp == Pitch("+pi/2", 0)
StraightDown == Pitch("-pi/2", 0)

\* rotationX > Math.PI / 2
AboveStraightUp(p) ==
    \/ p.base = "0" /\ p.steps > QuarterTurn
    \/ p.base = "+pi/2" /\ p.steps > 0
    \/ p.base = "-pi/2" /\ p.steps > HalfTurn

\* rotationX < -Math.PI / 2
BelowStraightDown(p) ==
    \/ p.base = "0" /\ p.steps < -QuarterTurn
    \/ p.base = "+pi/2" /\ p.steps < -HalfTurn
    \/ p.base = "-pi/2" /\ p.steps < 0

\* Math.max(-Math.PI / 2, Math.min(Math.PI / 2, rotationX))
ClampPitch(p) ==
    IF AboveStraightUp(p) THEN StraightUp
    ELSE IF BelowStraightDown(p) THEN StraightDown
    ELSE p

\* A yaw that follows the pointer: rotationY += deltaX * 0.005
YawAfter_Following(yaw, from, to) == yaw + (to[1] - from[1])

\* onMouseMove: rotationY -= deltaX * 0.005
YawAfter(yaw, from, to) == yaw - (to[1] - from[1])

\* onMouseMove: rotationX -= deltaY * 0.005, then the clamp
PitchAfter(pitch, from, to) ==
    ClampPitch(Pitch(pitch.base, pitch.steps - (to[2] - from[2])))

\* The turns a behaviour explores stay within MaxTurn steps of 0 (and of
\* +-pi/2 for the pitch).
WithinTurn(yaw, pitch) ==
    /\ yaw <= MaxTurn /\ -yaw <= MaxTurn
    /\ pitch.steps <= MaxTurn /\ -pitch.steps <= MaxTurn

NoSpan == [open |-> FALSE, last |-> <<>>]

\* No function called yet.
NoCalc == [args |-> <<>>, fn |-> "none", out |-> <<>>]

\* A call of a function that touches no state: what it was given and what
\* it returned are recorded.
Call(fn, args, out) ==
    /\ calc' = [args |-> args, fn |-> fn, out |-> out]
    /\ UNCHANGED <<phase, roomVars, wallVars, storage, nFail, lastOp, sceneVars,
                   pointerVars, viewVars, lookVars, throttleVars>>

\* throttle: let lastCall = 0; let timeoutId = null, and no timer set.
NoThrottle == [lastCall |-> 0, timeoutId |-> <<>>, timers |-> {}]

\* No call of the throttled function yet.
NoLog ==
    [called |-> FALSE, lastArgs |-> <<>>,
     invoked |-> FALSE, invokedAt |-> 0, invokedArgs |-> <<>>]

(***************************************************************************)
(* Boot: model/index.ts (new RootStore()), main.tsx, initScene             *)
(***************************************************************************)
\* The module-level state of scene.ts and the closure of createOrbitControls
\* as a fresh page has them.
SceneReset ==
    /\ mouseDownPosition' = <<>>
    /\ hasDragged' = FALSE
    /\ lastHoveredWallId' = Null
    /\ isDragging' = FALSE
    /\ rotationX' = Level
    /\ rotationY' = 0
    /\ previousMousePosition' = <<0, 0>>
    /\ dragSpan' = NoSpan
    /\ SetScene(NoScene)
    /\ lastCall' = 0
    /\ timeoutId' = <<>>
    /\ timers' = {}
    /\ throttleLog' = NoLog
    /\ groutThrottle' = NoThrottle
    /\ UNCHANGED now

\* A page load over the storage as it is: new RootStore() runs the two
\* constructors, each from its field initialisers and loadFromStorage().
\* A button held across the load was pressed outside the new document.
Construct(ok) ==
    /\ phase \in {"new", "running"}
    /\ ~clickPending
    /\ Representable(RoomAfterLoad(DEFAULT_ROOM_DIMENSIONS, storage))
    /\ phase' = "constructed"
    /\ room' = RoomAfterLoad(DEFAULT_ROOM_DIMENSIONS, storage)
    /\ storage' = StorageAfterRoomLoad(DEFAULT_ROOM_DIMENSIONS, storage, ok)
    /\ selectedWallId' = SelectedAfterLoad(Null, storage)
    /\ wallConfigs' = ConfigsAfterLoad(DefaultWallConfigs, storage)
    /\ hoveredWallId' = Null
    /\ nFail' = Failures(RoomLoadWrites(storage), ok)
    /\ lastOp' = LoadOp("construct",
                        IF RoomLoadWrites(storage) THEN WriteResult(ok) ELSE "none",
                        LoadResults(storage))
    /\ SceneReset
    /\ pressTarget' = IF pressTarget = "none" THEN "none" ELSE "outside"
    /\ gesture' = NoGesture
    /\ UNCHANGED <<inside, clickPending, calc>>

\* main.tsx: rootStore.room.loadFromStorage(); rootStore.wall.loadFromStorage()
MainLoad(ok) ==
    /\ phase = "constructed"
    /\ Representable(RoomAfterLoad(room, storage))
    /\ phase' = "loaded"
    /\ room' = RoomAfterLoad(room, storage)
    /\ storage' = StorageAfterRoomLoad(room, storage, ok)
    /\ selectedWallId' = SelectedAfterLoad(selectedWallId, storage)
    /\ wallConfigs' = ConfigsAfterLoad(wallConfigs, storage)
    /\ nFail' = Failures(RoomLoadWrites(storage), ok)
    /\ lastOp' = LoadOp("mainLoad",
                        IF RoomLoadWrites(storage) THEN WriteResult(ok) ELSE "none",
                        LoadResults(storage))
    /\ UNCHANGED <<hoveredWallId, sceneVars, pointerVars, viewVars, lookVars,
                   throttleVars, calc>>

\* initScene: the camera is created and createOrbitControls puts it at the
\* origin; updateRoom runs, and then each of the three autoruns runs once
\* as it is set up; the listeners are attached; the UI renders after it.
InitScene ==
    /\ phase = "loaded"
    /\ CameraRepresentable(room)
    /\ phase' = "running"
    /\ LET created == [NoScene EXCEPT !.cameraPosition = Origin, !.configs = wallConfigs]
           initial == updateRoom(created, room)
           first == updateRoom(initial, room)
           second == updateHoverHighlight(first, hoveredWallId)
           third == Microtasks(updatePerimeterLine(second, selectedWallId))
       IN  Reacted(StoreOp("initScene", "none"), third)
    /\ UNCHANGED <<roomVars, wallVars, storage, nFail, sceneVars, pointerVars, lookVars,
                   throttleVars, calc>>

(***************************************************************************)
(* RoomModel setters                                                       *)
(***************************************************************************)
\* A setter that saves before it assigns: the record written is the old one.
RoomSet_SaveBeforeAssign(name, r, ok) ==
    /\ phase = "running"
    /\ ~clickPending
    /\ room' = r
    /\ storage' = RoomSave(room, storage, ok)
    /\ nFail' = Failures(TRUE, ok)
    /\ CameraRepresentable(r)
    /\ Reacted(StoreOp(name, WriteResult(ok)),
               Reactions(TheScene, r # room, r, hoveredWallId, hoveredWallId,
                         selectedWallId, selectedWallId))
    /\ UNCHANGED <<throttleVars, calc, phase, wallVars, sceneVars, pointerVars, lookVars>>

RoomSet(name, r, ok) ==
    /\ phase = "running"
    /\ ~clickPending
    /\ room' = r
    /\ storage' = RoomSave(r, storage, ok)
    /\ nFail' = Failures(TRUE, ok)
    /\ CameraRepresentable(r)
    /\ Reacted(StoreOp(name, WriteResult(ok)),
               Reactions(TheScene, r # room, r, hoveredWallId, hoveredWallId,
                         selectedWallId, selectedWallId))
    /\ UNCHANGED <<throttleVars, calc, phase, wallVars, sceneVars, pointerVars, lookVars>>

setWidth(width, ok) == RoomSet("setWidth", [room EXCEPT !.width = width], ok)

setHeight(height, ok) == RoomSet("setHeight", [room EXCEPT !.height = height], ok)

setLength(length, ok) == RoomSet("setLength", [room EXCEPT !.length = length], ok)

setDimensions(width, height, length, ok) ==
    RoomSet("setDimensions", Dims(width, height, length), ok)

RoomSetters == {"setWidth", "setHeight", "setLength", "setDimensions"}

(***************************************************************************)
(* WallModel mutators                                                      *)
(***************************************************************************)
\* selectWall(wallId) and deselectWall(): the assignment and saveSelectedWall
SelectionSet(sel, ok) ==
    /\ selectedWallId' = sel
    /\ storage' = SaveSelectedWall(sel, storage, ok)
    /\ nFail' = Failures(TRUE, ok)
    /\ SetScene(Reactions(TheScene, FALSE, room, hoveredWallId, hoveredWallId,
                          selectedWallId, sel))

selectWall(wallId, ok) ==
    /\ phase = "running"
    /\ ~clickPending
    /\ SelectionSet(wallId, ok)
    /\ lastOp' = StoreOp("selectWall", WriteResult(ok))
    /\ UNCHANGED <<throttleVars, calc, phase, roomVars, hoveredWallId, wallConfigs, sceneVars, pointerVars,
                   lookVars>>

\* A deselectWall that clears the hover with the selection.
deselectWall_ClearsHover(ok) ==
    /\ phase = "running"
    /\ ~clickPending
    /\ selectedWallId' = Null
    /\ hoveredWallId' = Null
    /\ storage' = SaveSelectedWall(Null, storage, ok)
    /\ nFail' = Failures(TRUE, ok)
    /\ Reacted(StoreOp("deselectWall", WriteResult(ok)),
               Reactions(TheScene, FALSE, room, hoveredWallId, Null,
                         selectedWallId, Null))
    /\ UNCHANGED <<throttleVars, calc, phase, roomVars, wallConfigs, sceneVars, pointerVars,
                   lookVars>>

deselectWall(ok) ==
    /\ phase = "running"
    /\ ~clickPending
    /\ SelectionSet(Null, ok)
    /\ lastOp' = StoreOp("deselectWall", WriteResult(ok))
    /\ UNCHANGED <<throttleVars, calc, phase, roomVars, hoveredWallId, wallConfigs, sceneVars, pointerVars,
                   lookVars>>

WallUpdate(name, wallId, config, ok) ==
    /\ phase = "running"
    /\ ~clickPending
    /\ wallConfigs' = ConfigsAfterUpdate(wallConfigs, wallId, config)
    /\ storage' = WallSave(wallConfigs', storage, ok)
    /\ nFail' = Failures(TRUE, ok)
    /\ Reacted(WallOp(name, WriteResult(ok), wallId, config),
               Reactions([TheScene EXCEPT !.configs = wallConfigs'], TRUE, room,
                         hoveredWallId, hoveredWallId, selectedWallId, selectedWallId))
    /\ UNCHANGED <<phase, roomVars, selectedWallId, hoveredWallId, sceneVars, pointerVars,
                   lookVars, calc>>

updateWallConfig(wallId, config, ok) ==
    WallUpdate("updateWallConfig", wallId, config, ok) /\ UNCHANGED throttleVars

setTileImage(wallId, imageUrl, ok) ==
    WallUpdate("setTileImage", wallId, [imageUrl |-> imageUrl], ok)
        /\ UNCHANGED throttleVars

setTileSize(wallId, width, height, ok) ==
    WallUpdate("setTileSize", wallId, [tileWidth |-> width, tileHeight |-> height], ok)
        /\ UNCHANGED throttleVars

setSpacing(wallId, spacing, ok) ==
    WallUpdate("setSpacing", wallId, [spacing |-> spacing], ok)
        /\ UNCHANGED throttleVars

setGroutColor(wallId, color, ok) ==
    WallUpdate("setGroutColor", wallId, [groutColor |-> color], ok)
        /\ UNCHANGED throttleVars

ConfigSetters ==
    {"updateWallConfig", "setTileImage", "setTileSize", "setSpacing", "setGroutColor"}

SelectionSetters == {"selectWall", "deselectWall"}

(***************************************************************************)
(* components/scene.ts and lib/three.ts: the mouse listeners of initScene  *)
(* and of createOrbitControls, handleClick, handleHover.                   *)
(*                                                                         *)
(* A mouse event carries its position and its ray: the meshes of the room  *)
(* the ray from the camera through the pointer crosses, nearest first.     *)
(***************************************************************************)
DragThreshold == 5

Abs(n) == IF n < 0 THEN -n ELSE n

\* The filter of handleClick and handleHover: id !== 'top' && id !== 'bottom'
IsEditableMesh(id) == id # "top" /\ id # "bottom"

\* raycaster.intersectObjects(editableMeshes): nearest first
EditableIntersections(ray) == SelectSeq(ray, IsEditableMesh)

\* getWallIdFromIntersection, of a mesh whose userData.wallId is its id
getWallIdFromIntersection(meshId) == IF meshId \in WallId THEN meshId ELSE Null

\* A pick that tests every mesh of the room and trusts userData.wallId.
PickedWall_AnyMesh(ray) == IF ray # <<>> THEN ray[1] ELSE Null

\* handleClick, handleHover: the wall id of intersections[0], null when
\* there is no intersection
PickedWall(ray) ==
    LET intersections == EditableIntersections(ray)
    IN  IF Len(intersections) > 0
        THEN getWallIdFromIntersection(intersections[1])
        ELSE Null

\* A drag test that looks at the horizontal movement alone.
MovedFar_Horizontal(from, to) == Abs(to[1] - from[1]) > DragThreshold

\* The drag test of the mousemove listener: deltaX > 5 || deltaY > 5
MovedFar(from, to) ==
    \/ Abs(to[1] - from[1]) > DragThreshold
    \/ Abs(to[2] - from[2]) > DragThreshold

MouseOp(name, ray, pos) == Op(name, "none", ray, pos)

\* mousedown on the container: onMouseDown of the controls, then the
\* listener of initScene
mousedown(pos) ==
    /\ phase = "running" /\ inside /\ ~clickPending
    /\ pressTarget = "none"
    /\ isDragging' = TRUE
    /\ mouseDownPosition' = pos
    /\ hasDragged' = FALSE
    /\ pressTarget' = "container"
    /\ gesture' = [active |-> TRUE, pos |-> pos, far |-> FALSE]
    /\ previousMousePosition' = pos
    /\ dragSpan' = [open |-> TRUE, last |-> pos]
    /\ lastOp' = MouseOp("mousedown", <<>>, pos)
    /\ UNCHANGED <<throttleVars, calc, phase, roomVars, wallVars, storage, nFail, lastHoveredWallId,
                   inside, clickPending, viewVars, rotationX, rotationY>>

\* handleHover: setHoveredWall when the wall under the pointer changes
HoverAfter(ray) ==
    LET wallId == PickedWall(ray)
    IN  IF Len(EditableIntersections(ray)) > 0
        THEN IF wallId # Null /\ wallId # lastHoveredWallId
             THEN [hovered |-> wallId, last |-> wallId]
             ELSE [hovered |-> hoveredWallId, last |-> lastHoveredWallId]
        ELSE IF lastHoveredWallId # Null
             THEN [hovered |-> Null, last |-> Null]
             ELSE [hovered |-> hoveredWallId, last |-> lastHoveredWallId]

\* A listener that detects the hover whether a button is down or not.
mousemove_HoversWhilePressed(pos, ray) ==
    /\ phase = "running" /\ inside /\ ~clickPending
    /\ IF isDragging
       THEN /\ rotationY' = YawAfter(rotationY, previousMousePosition, pos)
            /\ rotationX' = PitchAfter(rotationX, previousMousePosition, pos)
            /\ WithinTurn(rotationY', rotationX')
            /\ previousMousePosition' = pos
       ELSE UNCHANGED <<rotationX, rotationY, previousMousePosition>>
    /\ hasDragged' = IF mouseDownPosition # <<>> /\ MovedFar(mouseDownPosition, pos)
                     THEN TRUE ELSE hasDragged
    /\ hoveredWallId' = HoverAfter(ray).hovered
    /\ lastHoveredWallId' = HoverAfter(ray).last
    /\ gesture' = IF gesture.active /\ (Abs(pos[1] - gesture.pos[1]) > 5 \/ Abs(pos[2] - gesture.pos[2]) > 5)
                  THEN [gesture EXCEPT !.far = TRUE] ELSE gesture
    /\ dragSpan' = IF dragSpan.open THEN [dragSpan EXCEPT !.last = pos] ELSE dragSpan
    /\ LET turned == IF isDragging
                     THEN [TheScene EXCEPT !.cameraPosition = Origin] ELSE TheScene
       IN  Reacted(MouseOp("mousemove", ray, pos),
                   Reactions(turned, FALSE, room, hoveredWallId, hoveredWallId',
                             selectedWallId, selectedWallId))
    /\ UNCHANGED <<throttleVars, calc, phase, roomVars, selectedWallId, wallConfigs, storage, nFail,
                   mouseDownPosition, isDragging, inside, pressTarget, clickPending>>

\* mousemove on the container: onMouseMove of the controls (the turn, while
\* isDragging), then the listener of initScene: the drag test while
\* mouseDownPosition is set, hover detection while it is not
mousemove(pos, ray) ==
    /\ phase = "running" /\ inside /\ ~clickPending
    /\ IF isDragging
       THEN /\ rotationY' = YawAfter(rotationY, previousMousePosition, pos)
            /\ rotationX' = PitchAfter(rotationX, previousMousePosition, pos)
            /\ WithinTurn(rotationY', rotationX')
            /\ previousMousePosition' = pos
       ELSE UNCHANGED <<rotationX, rotationY, previousMousePosition>>
    /\ hasDragged' = IF mouseDownPosition # <<>> /\ MovedFar(mouseDownPosition, pos)
                     THEN TRUE ELSE hasDragged
    /\ IF mouseDownPosition = <<>>
       THEN /\ hoveredWallId' = HoverAfter(ray).hovered
            /\ lastHoveredWallId' = HoverAfter(ray).last
       ELSE UNCHANGED <<hoveredWallId, lastHoveredWallId>>
    /\ gesture' = IF gesture.active /\ (Abs(pos[1] - gesture.pos[1]) > 5 \/ Abs(pos[2] - gesture.pos[2]) > 5)
                  THEN [gesture EXCEPT !.far = TRUE] ELSE gesture
    /\ dragSpan' = IF dragSpan.open THEN [dragSpan EXCEPT !.last = pos] ELSE dragSpan
    /\ LET turned == IF isDragging
                     THEN [TheScene EXCEPT !.cameraPosition = Origin] ELSE TheScene
       IN  Reacted(MouseOp("mousemove", ray, pos),
                   Reactions(turned, FALSE, room, hoveredWallId, hoveredWallId',
                             selectedWallId, selectedWallId))
    /\ UNCHANGED <<throttleVars, calc, phase, roomVars, selectedWallId, wallConfigs, storage, nFail,
                   mouseDownPosition, isDragging, inside, pressTarget, clickPending>>

\* mouseleave: the pointer leaves the container, whatever the button does
mouseleave ==
    /\ phase = "running" /\ inside /\ ~clickPending
    /\ inside' = FALSE
    /\ hoveredWallId' = Null
    /\ lastHoveredWallId' = Null
    /\ isDragging' = FALSE
    /\ dragSpan' = NoSpan
    /\ LET cleared == Reactions(TheScene, FALSE, room, hoveredWallId, Null,
                                selectedWallId, selectedWallId)
       IN  Reacted(MouseOp("mouseleave", <<>>, <<>>), updateHoverHighlight(cleared, Null))
    /\ UNCHANGED <<throttleVars, calc, phase, roomVars, selectedWallId, wallConfigs, storage, nFail,
                   mouseDownPosition, hasDragged, pressTarget, clickPending, gesture,
                   rotationX, rotationY, previousMousePosition>>

\* The pointer comes back over the container: no listener.
mouseenter ==
    /\ phase = "running" /\ ~inside
    /\ inside' = TRUE
    /\ lastOp' = MouseOp("mouseenter", <<>>, <<>>)
    /\ UNCHANGED <<throttleVars, calc, phase, roomVars, wallVars, storage, nFail, sceneVars,
                   pressTarget, clickPending, gesture, viewVars, lookVars>>

\* The button goes down outside the container: no listener.
pressOutside ==
    /\ phase = "running" /\ ~inside
    /\ pressTarget = "none"
    /\ pressTarget' = "outside"
    /\ lastOp' = MouseOp("pressOutside", <<>>, <<>>)
    /\ UNCHANGED <<throttleVars, calc, phase, roomVars, wallVars, storage, nFail, sceneVars,
                   inside, clickPending, gesture, viewVars, lookVars>>

\* The button goes up outside the container: no listener, and no click on
\* the container follows.
releaseOutside ==
    /\ phase = "running" /\ ~inside
    /\ pressTarget # "none"
    /\ pressTarget' = "none"
    /\ gesture' = NoGesture
    /\ lastOp' = MouseOp("releaseOutside", <<>>, <<>>)
    /\ UNCHANGED <<throttleVars, calc, phase, roomVars, wallVars, storage, nFail, sceneVars,
                   inside, clickPending, viewVars, lookVars>>

\* mouseup on the container; the browser sends a click next when the press
\* began on the container too
mouseup ==
    /\ phase = "running" /\ inside /\ ~clickPending
    /\ pressTarget # "none"
    /\ mouseDownPosition' = <<>>
    /\ isDragging' = FALSE
    /\ clickPending' = (pressTarget = "container")
    /\ pressTarget' = "none"
    /\ dragSpan' = NoSpan
    /\ lastOp' = MouseOp("mouseup", <<>>, <<>>)
    /\ UNCHANGED <<throttleVars, calc, phase, roomVars, wallVars, storage, nFail, hasDragged,
                   lastHoveredWallId, inside, gesture, viewVars, rotationX, rotationY,
                   previousMousePosition>>

\* click on the container: handleClick unless the interaction was a drag
click(ray, ok) ==
    /\ phase = "running" /\ clickPending
    /\ clickPending' = FALSE
    /\ IF ~hasDragged /\ PickedWall(ray) # Null
       THEN /\ SelectionSet(PickedWall(ray), ok)
            /\ lastOp' = Op("click", WriteResult(ok), ray, <<>>)
       ELSE /\ UNCHANGED <<selectedWallId, storage, nFail, viewVars>>
            /\ lastOp' = Op("click", "none", ray, <<>>)
    /\ hasDragged' = FALSE
    /\ gesture' = NoGesture
    /\ UNCHANGED <<throttleVars, calc, phase, roomVars, hoveredWallId, wallConfigs, mouseDownPosition,
                   lastHoveredWallId, isDragging, inside, pressTarget, lookVars>>

(***************************************************************************)
(* lib/throttle.ts and the Spacing field of WallControls: the throttled    *)
(* setSpacing of the selected wall.                                        *)
(*                                                                         *)
(* Date.now() counts from 1970, so the first call finds lastCall = 0 at    *)
(* least the delay behind it: the clock of the model starts at the delay.  *)
(***************************************************************************)
\* throttle(..., 150) of setSpacing
ThrottleDelay == 150

\* The time that passes between two events, in milliseconds.
TickMs == 50

pageVars ==
    <<phase, roomVars, wallVars, storage, nFail, sceneVars, pointerVars, viewVars,
      lookVars, calc>>

\* Time passes; a timer that is due may fire later.
Tick ==
    /\ phase = "running" /\ ~clickPending
    /\ now + TickMs <= MaxTime
    /\ now' = now + TickMs
    /\ lastOp' = StoreOp("tick", "none")
    /\ UNCHANGED <<pageVars, lastCall, timeoutId, timers, throttleLog, groutThrottle>>

\* onChange of the Spacing field: the throttled function is called with the
\* value; it invokes setSpacing at once when the last invocation is at
\* least the delay old, and otherwise clears the timer it set last and sets
\* one for the rest of the delay.
spacingInput(value, ok) ==
    /\ phase = "running" /\ ~clickPending
    /\ selectedWallId \in WallId
    /\ LET timeSinceLastCall == now - lastCall
       IN  IF timeSinceLastCall >= ThrottleDelay
           THEN /\ lastCall' = now
                /\ WallUpdate("spacingInput", selectedWallId, [spacing |-> value], ok)
                /\ throttleLog' =
                      [called |-> TRUE, lastArgs |-> <<value>>,
                       invoked |-> TRUE, invokedAt |-> now, invokedArgs |-> <<value>>]
                /\ UNCHANGED <<timeoutId, timers>>
           ELSE /\ LET cleared == IF timeoutId = <<>> THEN {} ELSE {timeoutId[1]}
                       timer == [due |-> now + (ThrottleDelay - timeSinceLastCall),
                                 args |-> value, wallId |-> selectedWallId,
                                 live |-> TRUE]
                   IN  /\ timers' = (timers \ cleared) \cup {timer}
                       /\ timeoutId' = <<timer>>
                /\ throttleLog' =
                      [throttleLog EXCEPT !.called = TRUE, !.lastArgs = <<value>>]
                /\ lastOp' = StoreOp("spacingInput", "none")
                /\ UNCHANGED <<pageVars, lastCall>>
    /\ UNCHANGED <<now, groutThrottle>>

\* A timer that invokes setSpacing for the wall that is selected when it
\* fires.
timerFires_SelectedWall(ok) ==
    /\ phase = "running" /\ ~clickPending
    /\ \E timer \in timers :
          /\ now >= timer.due
          /\ timers' = timers \ {timer}
          /\ lastCall' = IF timer.live THEN now ELSE lastCall
          /\ WallUpdate("timerFires",
                        IF selectedWallId \in WallId THEN selectedWallId ELSE timer.wallId,
                        [spacing |-> timer.args], ok)
          /\ throttleLog' =
                [throttleLog EXCEPT !.invoked = TRUE, !.invokedAt = now,
                                    !.invokedArgs = <<timer.args>>]
    /\ UNCHANGED <<now, timeoutId, groutThrottle>>

\* The callback of a timer: lastCall = Date.now(); func(...args).  The
\* lastCall is the one of the closure that set the timer: the timer of a
\* closure that has been replaced writes a variable nothing reads.
timerFires(ok) ==
    /\ phase = "running" /\ ~clickPending
    /\ \E timer \in timers :
          /\ now >= timer.due
          /\ timers' = timers \ {timer}
          /\ lastCall' = IF timer.live THEN now ELSE lastCall
          /\ WallUpdate("timerFires", timer.wallId, [spacing |-> timer.args], ok)
          /\ throttleLog' =
                [throttleLog EXCEPT !.invoked = TRUE, !.invokedAt = now,
                                    !.invokedArgs = <<timer.args>>]
    /\ UNCHANGED <<now, timeoutId, groutThrottle>>

\* throttle(..., 100) of setGroutColor
GroutThrottleDelay == 100

\* onChange of the ColorPicker: the throttled setGroutColor is called with
\* the colour
groutColorInput(color, ok) ==
    /\ phase = "running" /\ ~clickPending
    /\ selectedWallId \in WallId
    /\ LET timeSinceLastCall == now - groutThrottle.lastCall
       IN  IF timeSinceLastCall >= GroutThrottleDelay
           THEN /\ groutThrottle' = [groutThrottle EXCEPT !.lastCall = now]
                /\ WallUpdate("groutColorInput", selectedWallId,
                              [groutColor |-> color], ok)
           ELSE /\ LET cleared == IF groutThrottle.timeoutId = <<>> THEN {}
                                  ELSE {groutThrottle.timeoutId[1]}
                       timer == [due |-> now + (GroutThrottleDelay - timeSinceLastCall),
                                 args |-> color, wallId |-> selectedWallId,
                                 live |-> TRUE]
                   IN  groutThrottle' =
                          [groutThrottle EXCEPT
                              !.timers = (groutThrottle.timers \ cleared) \cup {timer},
                              !.timeoutId = <<timer>>]
                /\ lastOp' = StoreOp("groutColorInput", "none")
                /\ UNCHANGED pageVars
    /\ UNCHANGED <<now, lastCall, timeoutId, timers, throttleLog>>

\* The callback of a timer of the throttled setGroutColor
groutTimerFires(ok) ==
    /\ phase = "running" /\ ~clickPending
    /\ \E timer \in groutThrottle.timers :
          /\ now >= timer.due
          /\ groutThrottle' =
                [groutThrottle EXCEPT
                    !.timers = groutThrottle.timers \ {timer},
                    !.lastCall = IF timer.live THEN now ELSE groutThrottle.lastCall]
          /\ WallUpdate("groutTimerFires", timer.wallId, [groutColor |-> timer.args], ok)
    /\ UNCHANGED <<now, lastCall, timeoutId, timers, throttleLog>>

\* The timers of a closure that has been replaced: they stay set.
Orphaned(set) == {[timer EXCEPT !.live = FALSE] : timer \in set}

\* A click in the scene selects another wall or none (handleClick:
\* selectWall, deselectWall), WallControls renders again, and its effect on
\* [selectedWallId, wallStore] replaces the two throttled functions by new
\* ones for the wall now selected; the timers of the old ones are not
\* cleared.
selectionChanged(sel, ok) ==
    /\ phase = "running" /\ ~clickPending
    /\ sel # selectedWallId
    /\ SelectionSet(sel, ok)
    /\ lastOp' = StoreOp(IF sel = Null THEN "deselectWall" ELSE "selectWall",
                         WriteResult(ok))
    /\ lastCall' = 0
    /\ timeoutId' = <<>>
    /\ timers' = Orphaned(timers)
    /\ groutThrottle' = [lastCall |-> 0, timeoutId |-> <<>>,
                         timers |-> Orphaned(groutThrottle.timers)]
    /\ UNCHANGED <<now, throttleLog, calc, phase, roomVars, hoveredWallId, wallConfigs,
                   sceneVars, pointerVars, lookVars>>

(***************************************************************************)
(* lib/three.ts: createWallPerimeterLine                                   *)
(*                                                                         *)
(* Lengths are whole numbers of units of 5 mm, so that half of a size      *)
(* given in whole centimetres is a whole number; the arithmetic is exact.  *)
(***************************************************************************)
\* const dashLength = 0.15
dashLength == 30
\* const gapLength = 0.08
gapLength == 16
\* const segmentLength = dashLength + gapLength
segmentLength == dashLength + gapLength

\* Math.ceil(a / b) for a >= 0 and b > 0
Ceil(a, b) == (a + b - 1) \div b

Min(a, b) == IF a <= b THEN a ELSE b

\* A dash of an edge: the edge it is on and where it begins and ends along
\* the edge, measured from the wall's centre.
Dash(edge, start, end) == [edge |-> edge, start |-> start, end |-> end]

\* A loop that does not clip a dash at the end of its edge.
RECURSIVE EdgeDashes_Unclipped(_, _, _, _, _)
EdgeDashes_Unclipped(edge, half, segments, i, group) ==
    IF i >= segments THEN group
    ELSE LET start == -half + i * segmentLength
             end == start + dashLength
         IN  IF start >= half THEN group
             ELSE IF end - start > 0
             THEN EdgeDashes_Unclipped(edge, half, segments, i + 1,
                                       Append(group, Dash(edge, start, end)))
             ELSE EdgeDashes_Unclipped(edge, half, segments, i + 1, group)

\* The loop of one edge, from its iteration i on: group is what the group
\* holds so far.
RECURSIVE EdgeDashes(_, _, _, _, _)
EdgeDashes(edge, half, segments, i, group) ==
    IF i >= segments THEN group
    ELSE LET start == -half + i * segmentLength
             end == Min(start + dashLength, half)
         IN  IF start >= half THEN group
             ELSE IF end - start > 0
             THEN EdgeDashes(edge, half, segments, i + 1,
                             Append(group, Dash(edge, start, end)))
             ELSE EdgeDashes(edge, half, segments, i + 1, group)

\* createWallPerimeterLine(_wallId, position, rotation, size): the children
\* of the group, in the order they are added.  size is <<x, y>> in
\* centimetres.
createWallPerimeterLine(size) ==
    LET halfWidth == size[1]
        halfHeight == size[2]
        topSegments == Ceil(2 * size[1], segmentLength)
        leftSegments == Ceil(2 * size[2], segmentLength)
        top == EdgeDashes("top", halfWidth, topSegments, 0, <<>>)
        bottom == EdgeDashes("bottom", halfWidth, topSegments, 0, top)
        left == EdgeDashes("left", halfHeight, leftSegments, 0, bottom)
    IN  EdgeDashes("right", halfHeight, leftSegments, 0, left)

\* A call of createWallPerimeterLine
perimeterLineBuilt(size) ==
    Call("createWallPerimeterLine", size, createWallPerimeterLine(size))

(***************************************************************************)
(* components/scene.ts: createWall, the texture of an editable wall        *)
(*                                                                         *)
(* Sizes are in metres and tile sizes in millimetres, as in the code; a    *)
(* number that is not whole is a fraction in lowest terms.                 *)
(***************************************************************************)
RECURSIVE GCD(_, _)
GCD(a, b) == IF b = 0 THEN a ELSE GCD(b, a % b)

\* The fraction n / d for n >= 0 and d > 0
Frac(n, d) == [n |-> n \div GCD(n, d), d |-> d \div GCD(n, d)]

\* a / b for fractions a and b > 0
FracDiv(a, b) == Frac(a.n * b.d, a.d * b.n)

\* mmToMeters(mm): mm / 1000
mmToMeters(mm) == Frac(mm, 1000)

\* createWall, spacing 0 and no image: tileSizeM = mmToMeters(tileWidth),
\* repeatX = size.x / tileSizeM, repeatY = size.y / tileSizeM
CheckerboardRepeat(size, config) ==
    LET tileSizeM == mmToMeters(config.tileWidth)
    IN  <<FracDiv(size[1], tileSizeM), FracDiv(size[2], tileSizeM)>>

\* createWall for an editable wall: the texture its material gets, at once
\* for a spacing of 0 and when the composite texture is ready otherwise,
\* and the repeat set on it.
WallTexture(size, config) ==
    IF config.spacing = 0
    THEN IF config.imageUrl # Null
         THEN [map |-> "image",
               repeat |-> <<FracDiv(size[1], mmToMeters(config.tileWidth)),
                            FracDiv(size[2], mmToMeters(config.tileHeight))>>]
         ELSE [map |-> "checkerboard", repeat |-> CheckerboardRepeat(size, config)]
    ELSE [map |-> "composite",
          repeat |-> <<FracDiv(size[1], mmToMeters(config.tileWidth + config.spacing)),
                       FracDiv(size[2], mmToMeters(config.tileHeight + config.spacing))>>]

\* A call of createWall for an editable wall
wallTextured(size, config) ==
    Call("createWall", <<size, config>>, WallTexture(size, config))

(***************************************************************************)
(* components/scene.ts: updateRoom, where the six walls are put            *)
(***************************************************************************)
\* createWall: the mesh, with its PlaneGeometry(size.x, size.y), its
\* position, and userData.wallId
WallMesh(wallId, position, size) ==
    [wallId |-> wallId, size |-> size, position |-> position]

\* Side walls as wide as the room: new Vector2(width, height) for all four.
SideWallSize_Width(r) == <<r.width, r.height>>

\* updateRoom: new Vector2(length, height) for the left and right walls
SideWallSize(r) == <<r.length, r.height>>

\* updateRoom, "Create 6 walls": the meshes createWall is called for
RoomWalls(r) ==
    LET width == r.width
        height == r.height
        length == r.length
        halfWidth == Half(width)
        halfHeight == Half(height)
        halfLength == Half(length)
        zero == Num(0)
    IN  [id \in MeshId |->
            IF id = "front"
            THEN WallMesh("front", Vec(zero, zero, Neg(halfLength)), <<width, height>>)
            ELSE IF id = "back"
            THEN WallMesh("back", Vec(zero, zero, halfLength), <<width, height>>)
            ELSE IF id = "left"
            THEN WallMesh("left", Vec(Neg(halfWidth), zero, zero), SideWallSize(r))
            ELSE IF id = "right"
            THEN WallMesh("right", Vec(halfWidth, zero, zero), SideWallSize(r))
            ELSE IF id = "top"
            THEN WallMesh("top", Vec(zero, halfHeight, zero), <<width, length>>)
            ELSE WallMesh("bottom", Vec(zero, Neg(halfHeight), zero), <<width, length>>)]

\* A call of updateRoom for a room of the store
roomBuilt(r) == Call("updateRoom", r, RoomWalls(r))

(***************************************************************************)
(* lib/math.ts                                                             *)
(***************************************************************************)
\* calculateTileCount(roomDimension, tileSize, spacing), for whole numbers:
\* Math.floor is the quotient rounded down.
calculateTileCount(roomDimension, tileSize, spacing) ==
    IF tileSize <= 0 \/ spacing < 0 THEN 0
    ELSE IF tileSize + spacing = 0 THEN 0
    ELSE roomDimension \div (tileSize + spacing)

\* A call of calculateTileCount
tileCountCalculated(roomDimension, tileSize, spacing) ==
    Call("calculateTileCount", <<roomDimension, tileSize, spacing>>,
         calculateTileCount(roomDimension, tileSize, spacing))

(***************************************************************************)
(* lib/storage.ts: the two functions that no store calls                   *)
(***************************************************************************)
\* removeFromStorage(key)
removeFromStorage(key, ok) ==
    /\ phase = "running" /\ ~clickPending
    /\ storage' = IF ok THEN [storage EXCEPT ![key] = Absent] ELSE storage
    /\ lastOp' = StoreOp("removeFromStorage", WriteResult(ok))
    /\ UNCHANGED <<phase, roomVars, wallVars, nFail, sceneVars, pointerVars, viewVars,
                   lookVars, throttleVars, calc>>

\* clearStorage()
clearStorage(ok) ==
    /\ phase = "running" /\ ~clickPending
    /\ storage' = IF ok THEN [key \in STORAGE_KEYS |-> Absent] ELSE storage
    /\ lastOp' = StoreOp("clearStorage", WriteResult(ok))
    /\ UNCHANGED <<phase, roomVars, wallVars, nFail, sceneVars, pointerVars, viewVars,
                   lookVars, throttleVars, calc>>

(***************************************************************************)
(* RoomSpec: the room store through page loads and the RoomControls        *)
(* inputs.                                                                 *)
(***************************************************************************)
\* What a RoomControls input passes, parseFloat(value) || 0: 0 for an empty
\* field, the migration threshold, and a number beyond it.
DimInputs == {Num(0), Num(100), Num(150)}

\* Room records a previous session may have left: none, a text that is not
\* JSON, the millimetre defaults of the first version, metres, a room with
\* a side of 150 m stored in millimetres, and the threshold itself.
InitRoomItems ==
    {Absent, NotJson,
     JsonOf(Dims(Num(3000), Num(2500), Num(4000))),
     JsonOf(Dims(Num(3), Milli(2500), Num(4))),
     JsonOf(Dims(Num(150000), Num(2500), Num(4000))),
     JsonOf(Dims(Num(100), Num(100), Num(100)))}

\* A fresh page: every field at its initialiser, nothing run yet.
InitMemory ==
    /\ phase = "new"
    /\ room = DEFAULT_ROOM_DIMENSIONS
    /\ selectedWallId = Null
    /\ hoveredWallId = Null
    /\ wallConfigs = DefaultWallConfigs
    /\ nFail = 0
    /\ lastOp = StoreOp("none", "none")
    /\ mouseDownPosition = <<>>
    /\ hasDragged = FALSE
    /\ lastHoveredWallId = Null
    /\ isDragging = FALSE
    /\ inside = FALSE
    /\ pressTarget = "none"
    /\ clickPending = FALSE
    /\ gesture = NoGesture
    /\ sceneMeshes = NoScene.sceneMeshes
    /\ sceneGroups = NoScene.sceneGroups
    /\ wallMeshes = NoScene.wallMeshes
    /\ perimeterLines = NoScene.perimeterLines
    /\ cameraPosition = NoScene.cameraPosition
    /\ materialMaps = NoScene.materialMaps
    /\ rotationX = Level
    /\ rotationY = 0
    /\ previousMousePosition = <<0, 0>>
    /\ dragSpan = NoSpan
    /\ now = ThrottleDelay
    /\ lastCall = 0
    /\ timeoutId = <<>>
    /\ timers = {}
    /\ throttleLog = NoLog
    /\ groutThrottle = NoThrottle
    /\ calc = NoCalc

RoomInit ==
    /\ InitMemory
    /\ \E item \in InitRoomItems :
          storage = [k \in STORAGE_KEYS |-> IF k = ROOM THEN item ELSE Absent]

Boot ==
    \/ \E ok \in WriteOutcomes : Construct(ok)
    \/ \E ok \in WriteOutcomes : MainLoad(ok)
    \/ InitScene

RoomNext ==
    \/ Boot
    \/ \E w \in DimInputs, ok \in WriteOutcomes : setWidth(w, ok)
    \/ \E h \in DimInputs, ok \in WriteOutcomes : setHeight(h, ok)
    \/ \E l \in DimInputs, ok \in WriteOutcomes : setLength(l, ok)
    \/ \E w \in DimInputs, ok \in WriteOutcomes : setDimensions(w, w, w, ok)

RoomSpec == RoomInit /\ [][RoomNext]_vars

(***************************************************************************)
(* Properties of the room store (RoomSpec).                                *)
(***************************************************************************)
LoadOps == {"construct", "mainLoad"}

\* C3: a RoomModel constructed after a setter has run has the dimensions the
\* setter left.  Stated for a setter whose write went through, so that a
\* step that breaks it shows the load, not the write, losing the value.
C3_RoomRestored ==
    [][(lastOp.op \in RoomSetters /\ lastOp.write = "ok" /\ lastOp'.op = "construct")
        => room' = room]_vars

C6_LoadIdempotent ==
    [][(lastOp'.op = "mainLoad" /\ nFail' = 0)
        => (room' = room /\ storage'[ROOM] = storage[ROOM])]_vars

\* C7: width, height and length are positive in every reachable state.
C7_PositiveDimensions ==
    IsPositive(room.width) /\ IsPositive(room.height) /\ IsPositive(room.length)

(***************************************************************************)
(* StoreSpec: every setter of the two stores, called in any order for one  *)
(* wall, and page loads.                                                   *)
(***************************************************************************)
StoreDimInputs == {Num(0)}

\* The wall the tile setters are called for.
StoreWalls == {"front"}

\* A Partial<TileConfig> naming two fields at once.
StorePartials == {[spacing |-> 0, groutColor |-> "#000000"]}

ImageUrls == {"data:image/png;base64,AAAA"}

StoredConfigs ==
    [DefaultWallConfigs EXCEPT !["back"] =
        [imageUrl |-> "data:image/png;base64,AAAA", tileWidth |-> 200,
         tileHeight |-> 100, spacing |-> 0, groutColor |-> "#000000"]]

\* Items a previous session may have left under the two keys of WallModel.
InitWallsItems == {Absent, NotJson, JsonOf(StoredConfigs)}

InitSelectedItems == {Absent, NotJson, JsonNull, JsonOf("left")}

WallStorageInit ==
    \E walls \in InitWallsItems, sel \in InitSelectedItems :
        storage = [k \in STORAGE_KEYS |->
                      IF k = WALLS THEN walls
                      ELSE IF k = SELECTED_WALL THEN sel ELSE Absent]

StoreInit ==
    /\ InitMemory
    /\ storage = [k \in STORAGE_KEYS |-> Absent]

StoreNext ==
    \/ Boot
    \/ \E w \in StoreDimInputs, ok \in WriteOutcomes : setWidth(w, ok)
    \/ \E h \in StoreDimInputs, ok \in WriteOutcomes : setHeight(h, ok)
    \/ \E l \in StoreDimInputs, ok \in WriteOutcomes : setLength(l, ok)
    \/ \E w \in StoreDimInputs, ok \in WriteOutcomes : setDimensions(w, w, w, ok)
    \/ \E w \in WallId, ok \in WriteOutcomes : selectWall(w, ok)
    \/ \E ok \in WriteOutcomes : deselectWall(ok)
    \/ \E w \in StoreWalls, c \in StorePartials, ok \in WriteOutcomes :
          updateWallConfig(w, c, ok)
    \/ \E w \in StoreWalls, u \in ImageUrls, ok \in WriteOutcomes : setTileImage(w, u, ok)
    \/ \E w \in StoreWalls, ok \in WriteOutcomes : setTileSize(w, 200, 100, ok)
    \/ \E w \in StoreWalls, ok \in WriteOutcomes : setSpacing(w, 0, ok)
    \/ \E w \in StoreWalls, ok \in WriteOutcomes : setGroutColor(w, "#000000", ok)

StoreSpec == StoreInit /\ [][StoreNext]_vars

(***************************************************************************)
(* WallSpec: the wall store through page loads, with selectWall,           *)
(* deselectWall and updateWallConfig called for any wall.                  *)
(***************************************************************************)
WallPartials ==
    {[spacing |-> 0], [imageUrl |-> "data:image/png;base64,AAAA", tileWidth |-> 200]}

WallInit == InitMemory /\ WallStorageInit

WallNext ==
    \/ Boot
    \/ \E w \in WallId, ok \in WriteOutcomes : selectWall(w, ok)
    \/ \E ok \in WriteOutcomes : deselectWall(ok)
    \/ \E w \in WallId, c \in WallPartials, ok \in WriteOutcomes :
          updateWallConfig(w, c, ok)

WallSpec == WallInit /\ [][WallNext]_vars

(***************************************************************************)
(* Spec: the running page: mouse events on the scene container, the        *)
(* Deselect button, and page loads over whatever localStorage holds.  The  *)
(* writes of a selection succeed here; StoreSpec and WallSpec have them    *)
(* fail.                                                                   *)
(***************************************************************************)
\* Pointer positions, in pixels: at, within and beyond the drag threshold
\* of one another, horizontally and vertically.
Positions == {<<0, 0>>, <<5, 0>>, <<6, 0>>, <<0, 6>>}

\* Where the button goes down: the other positions are taken relative to it.
PressPositions == {<<0, 0>>}

\* Rays: past the room, onto one mesh, and (from a camera above a ceiling
\* lower than 1.8 m) through the ceiling onto a wall.
Rays ==
    {<<>>, <<"front">>, <<"back">>, <<"left">>, <<"right">>, <<"top">>,
     <<"bottom">>, <<"top", "right">>}

\* What the selected-wall key may hold when the page loads: localStorage is
\* the user's to edit, and any text may be there.
AnySelectedItems == InitSelectedItems \cup {JsonOf("top")}

Init ==
    /\ InitMemory
    /\ \E sel \in AnySelectedItems :
          storage = [k \in STORAGE_KEYS |-> IF k = SELECTED_WALL THEN sel ELSE Absent]

Next ==
    \/ Boot
    \/ \E pos \in PressPositions : mousedown(pos)
    \/ \E pos \in Positions, ray \in Rays : mousemove(pos, ray)
    \/ mouseleave
    \/ mouseenter
    \/ pressOutside
    \/ releaseOutside
    \/ mouseup
    \/ \E ray \in Rays : click(ray, TRUE)
    \/ deselectWall(TRUE)

Spec == Init /\ [][Next]_vars

(***************************************************************************)
(* SceneSpec: what is in the scene while the pointer hovers and clicks and *)
(* the stores change under it (a field of the panel keeps the keyboard     *)
(* while the pointer is over the scene).                                   *)
(***************************************************************************)
SceneRays == {<<>>, <<"front">>, <<"back">>}

SceneHeights == {Num(3)}

SceneInit ==
    /\ InitMemory
    /\ \E sel \in {Absent, JsonOf("left")} :
          storage = [k \in STORAGE_KEYS |-> IF k = SELECTED_WALL THEN sel ELSE Absent]

SceneNext ==
    \/ Boot
    \/ mouseenter
    \/ \E pos \in PressPositions, ray \in SceneRays : mousemove(pos, ray)
    \/ mouseleave
    \/ \E pos \in PressPositions : mousedown(pos)
    \/ mouseup
    \/ \E ray \in SceneRays : click(ray, TRUE)
    \/ deselectWall(TRUE)
    \/ \E w \in StoreWalls : setSpacing(w, 0, TRUE)
    \/ \E h \in SceneHeights : setHeight(h, TRUE)

SceneSpec == SceneInit /\ [][SceneNext]_vars

(***************************************************************************)
(* LookSpec: the camera through drags long enough to reach the clamp of    *)
(* the pitch, and changes of the room's height.                            *)
(***************************************************************************)
\* Pointer positions, in pixels: a few pixels apart, and further apart than
\* a quarter turn (314 pixels) and than a half turn (628 pixels).
LookPositions == {<<0, 0>>, <<3, 3>>, <<0, 400>>, <<0, 800>>}

LookInit ==
    /\ InitMemory
    /\ storage = [k \in STORAGE_KEYS |-> Absent]

LookNext ==
    \/ Boot
    \/ mouseenter
    \/ \E pos \in LookPositions : mousedown(pos)
    \/ \E pos \in LookPositions : mousemove(pos, <<>>)
    \/ mouseleave
    \/ pressOutside
    \/ releaseOutside
    \/ mouseup
    \/ click(<<>>, TRUE)
    \/ \E h \in SceneHeights : setHeight(h, TRUE)

LookSpec == LookInit /\ [][LookNext]_vars

(***************************************************************************)
(* ThrottleSpec: the Spacing field of the selected wall, typed into at any *)
(* pace, with the timers of the throttle firing on time or late.           *)
(***************************************************************************)
\* parseFloat(e.target.value) || 0 of what is typed into the field
SpacingInputs == {0, 5}

\* The page loads with the front wall selected, so the field is there.
ThrottleInit ==
    /\ InitMemory
    /\ storage = [k \in STORAGE_KEYS |->
                     IF k = SELECTED_WALL THEN JsonOf("front") ELSE Absent]

ThrottleNext ==
    \/ Boot
    \/ Tick
    \/ \E value \in SpacingInputs, ok \in WriteOutcomes : spacingInput(value, ok)
    \/ \E ok \in WriteOutcomes : timerFires(ok)

ThrottleSpec == ThrottleInit /\ [][ThrottleNext]_vars

(***************************************************************************)
(* LibrarySpec: the four functions of lib/storage.ts over items that are   *)
(* absent, not JSON, or in need of a migration, with storage calls that    *)
(* may throw.                                                              *)
(***************************************************************************)
\* Room records a previous session may have left: none, a text that is not
\* JSON, and the millimetre defaults, which the load migrates and saves.
LibraryRoomItems == {Absent, NotJson, JsonOf(Dims(Num(3000), Num(2500), Num(4000)))}

LibrarySelectedItems == {Absent, NotJson, JsonOf("left")}

LibraryInit ==
    /\ InitMemory
    /\ \E r \in LibraryRoomItems, w \in InitWallsItems, sel \in LibrarySelectedItems :
          storage = [key \in STORAGE_KEYS |->
                        IF key = ROOM THEN r ELSE IF key = WALLS THEN w ELSE sel]

LibraryNext ==
    \/ Boot
    \/ \E ok \in WriteOutcomes : setWidth(Num(0), ok)
    \/ \E ok \in WriteOutcomes : setSpacing("front", 0, ok)
    \/ \E ok \in WriteOutcomes : selectWall("back", ok)
    \/ \E ok \in WriteOutcomes : deselectWall(ok)
    \/ \E key \in STORAGE_KEYS, ok \in BOOLEAN : removeFromStorage(key, ok)
    \/ \E ok \in BOOLEAN : clearStorage(ok)

LibrarySpec == LibraryInit /\ [][LibraryNext]_vars

(***************************************************************************)
(* ConfigSpec: the tile settings of two walls, one of them restored with   *)
(* settings of its own, while the pointer hovers and a wall is selected.   *)
(***************************************************************************)
\* The walls the tile setters are called for: one at its defaults, one
\* restored with settings of its own.
ConfigWalls == {"front", "back"}

ConfigPartials == {[spacing |-> 0, groutColor |-> "#000000"]}

ConfigInit ==
    /\ InitMemory
    /\ \E sel \in {Absent, JsonOf("left")} :
          storage = [key \in STORAGE_KEYS |->
                        IF key = WALLS THEN JsonOf(StoredConfigs)
                        ELSE IF key = SELECTED_WALL THEN sel ELSE Absent]

ConfigNext ==
    \/ Boot
    \/ mouseenter
    \/ \E ray \in SceneRays : mousemove(<<0, 0>>, ray)
    \/ mouseleave
    \/ \E w \in ConfigWalls, c \in ConfigPartials, ok \in WriteOutcomes :
          updateWallConfig(w, c, ok)
    \/ \E w \in ConfigWalls, ok \in WriteOutcomes : setTileImage(w, Null, ok)
    \/ \E w \in ConfigWalls, ok \in WriteOutcomes : setTileSize(w, 200, 100, ok)
    \/ \E w \in ConfigWalls, ok \in WriteOutcomes : setSpacing(w, 0, ok)
    \/ \E w \in ConfigWalls, ok \in WriteOutcomes : setGroutColor(w, "#000000", ok)

ConfigSpec == ConfigInit /\ [][ConfigNext]_vars

(***************************************************************************)
(* DashSpec: createWallPerimeterLine for walls of every size from nothing  *)
(* to MaxSide centimetres a side.                                          *)
(***************************************************************************)
WallSizes == {<<x, y>> : x \in 0..MaxSide, y \in 0..MaxSide}

DashInit ==
    /\ InitMemory
    /\ storage = [key \in STORAGE_KEYS |-> Absent]

DashNext == \E size \in WallSizes : perimeterLineBuilt(size)

DashSpec == DashInit /\ [][DashNext]_vars

(***************************************************************************)
(* TextureSpec: createWall for walls of a few sizes and every tile         *)
(* configuration of a few positive tile sizes, with and without an image   *)
(* and a spacing.                                                          *)
(***************************************************************************)
\* Wall sizes in metres: 3 x 2.5, 4 x 2.5, 0.3 x 0.3
TexturedSizes ==
    {<<Frac(3, 1), Frac(5, 2)>>, <<Frac(4, 1), Frac(5, 2)>>, <<Frac(3, 10), Frac(3, 10)>>}

TileSizes == {100, 200, 300}

TileSpacings == {0, 3}

TexturedConfigs ==
    [imageUrl : {Null} \cup ImageUrls, tileWidth : TileSizes, tileHeight : TileSizes,
     spacing : TileSpacings, groutColor : {"#cccccc"}]

TextureInit ==
    /\ InitMemory
    /\ storage = [key \in STORAGE_KEYS |-> Absent]

TextureNext ==
    \E size \in TexturedSizes, config \in TexturedConfigs : wallTextured(size, config)

TextureSpec == TextureInit /\ [][TextureNext]_vars

(***************************************************************************)
(* TileCountSpec: calculateTileCount for small whole numbers, negative     *)
(* tile sizes and spacings among them.                                     *)
(***************************************************************************)
CountedDimensions == 0..MaxCount

CountedTileSizes == -1..5

CountedSpacings == -1..3

TileCountInit ==
    /\ InitMemory
    /\ storage = [key \in STORAGE_KEYS |-> Absent]

TileCountNext ==
    \E roomDimension \in CountedDimensions, tileSize \in CountedTileSizes,
       spacing \in CountedSpacings :
        tileCountCalculated(roomDimension, tileSize, spacing)

TileCountSpec == TileCountInit /\ [][TileCountNext]_vars

(***************************************************************************)
(* PlacementSpec: updateRoom for rooms whose sides are 0, whole, not       *)
(* whole, and a number of millimetres left by the first version.           *)
(***************************************************************************)
PlacedDims == {Num(0), Num(3), Milli(2500), Num(4), Num(3000)}

PlacementInit ==
    /\ InitMemory
    /\ storage = [key \in STORAGE_KEYS |-> Absent]

PlacementNext ==
    \E width \in PlacedDims, height \in PlacedDims, length \in PlacedDims :
        roomBuilt(Dims(width, height, length))

PlacementSpec == PlacementInit /\ [][PlacementNext]_vars

(***************************************************************************)
(* EditSpec: the Spacing field and the grout colour picker of the selected *)
(* wall, typed into at any pace, while clicks in the scene select another  *)
(* wall or none and the timers fire on time or late.                       *)
(***************************************************************************)
EditWalls == {"front", "back"}

GroutInputs == {"#000000"}

\* What is typed into the Spacing field.
EditSpacings == {5}

\* The timers set and not yet fired, of both throttled functions.
EditTimers == Cardinality(timers) + Cardinality(groutThrottle.timers)

\* The page loads once; an input is made while fewer than MaxTimers timers
\* are set.
EditNext ==
    \/ phase # "running" /\ Boot
    \/ now + TickMs <= MaxEditTime /\ Tick
    \/ \E value \in EditSpacings :
          EditTimers < MaxTimers /\ spacingInput(value, TRUE)
    \/ timerFires(TRUE)
    \/ \E color \in GroutInputs :
          EditTimers < MaxTimers /\ groutColorInput(color, TRUE)
    \/ groutTimerFires(TRUE)
    \/ \E sel \in EditWalls \cup {Null} : selectionChanged(sel, TRUE)

EditSpec == ThrottleInit /\ [][EditNext]_vars

(***************************************************************************)
(* MaterialSpec: the materials of the walls while the pointer hovers, the  *)
(* front wall gets an image and another spacing, and the image loads at    *)
(* any time.                                                               *)
(***************************************************************************)
MaterialWalls == {"front"}

MaterialSpacings == {0, 3}

MaterialInit ==
    /\ InitMemory
    /\ storage = [key \in STORAGE_KEYS |-> Absent]

MaterialNext ==
    \/ Boot
    \/ mouseenter
    \/ \E pos \in PressPositions, ray \in SceneRays : mousemove(pos, ray)
    \/ mouseleave
    \/ \E w \in MaterialWalls, url \in ImageUrls \cup {Null} : setTileImage(w, url, TRUE)
    \/ \E w \in MaterialWalls, spacing \in MaterialSpacings : setSpacing(w, spacing, TRUE)
    \/ \E w \in WallId : textureLoaded(w)

MaterialSpec == MaterialInit /\ [][MaterialNext]_vars

(***************************************************************************)
(* Properties of the two stores' persistence (StoreSpec, WallSpec).        *)
(***************************************************************************)
StoredSelection == IF selectedWallId = Null THEN JsonNull ELSE JsonOf(selectedWallId)

\* C2: right after a setter of either store whose write did not fail, the
\* item under the store's key is the JSON of the store's value in memory.
C2_PersistedAfterMutation ==
    lastOp.write = "ok" =>
        /\ lastOp.op \in RoomSetters => storage[ROOM] = JsonOf(room)
        /\ lastOp.op \in ConfigSetters => storage[WALLS] = JsonOf(wallConfigs)
        /\ lastOp.op \in SelectionSetters => storage[SELECTED_WALL] = StoredSelection

\* C2 witness: setHeight(0) has just been saved, after an earlier write had
\* failed.
C2_Witness ==
    /\ lastOp = StoreOp("setHeight", "ok")
    /\ nFail = 1
    /\ room.height = Num(0)
    /\ storage[ROOM] = JsonOf(room)

EditableOrNull == WallId \cup {Null}

\* C1: selectedWallId and hoveredWallId are each null or one of front, back,
\* left, right, whatever localStorage held.
C1_IdsEditable ==
    selectedWallId \in EditableOrNull /\ hoveredWallId \in EditableOrNull

\* The ray crosses no editable wall.
MissesWalls(ray) == \A i \in 1..Len(ray) : ray[i] \notin WallId

\* The mesh the ray meets first is the editable wall w.
FirstHits(ray, w) == ray # <<>> /\ ray[1] = w

\* C8: a click with no drag whose ray first hits editable wall w selects w;
\* a click whose ray hits no editable wall leaves the selection; and no
\* click changes the selection to anything but an editable wall.
C8_ClickPicking ==
    [][lastOp'.op = "click" =>
        /\ \A w \in WallId :
              (~hasDragged /\ FirstHits(lastOp'.ray, w)) => selectedWallId' = w
        /\ MissesWalls(lastOp'.ray) => selectedWallId' = selectedWallId
        /\ selectedWallId' # selectedWallId => selectedWallId' \in WallId]_vars

\* C8 witness: a click on the back wall has selected it and saved it.
C8_Witness ==
    /\ lastOp = Op("click", "ok", <<"back">>, <<>>)
    /\ selectedWallId = "back"
    /\ storage[SELECTED_WALL] = JsonOf("back")

\* C9: the click that ends a press during which a mousemove was more than 5
\* pixels from the press, in x or in y, leaves the selection; every click
\* clears the drag flag; and the click that ends a press with no such
\* movement selects the wall its ray first hits.
C9_DragNeverSelects ==
    [][lastOp'.op = "click" =>
        /\ gesture.active
        /\ gesture.far => selectedWallId' = selectedWallId
        /\ ~hasDragged'
        /\ \A w \in WallId :
              (~gesture.far /\ FirstHits(lastOp'.ray, w)) => selectedWallId' = w]_vars

\* C9 witness: a click on the front wall came and went and front is not
\* selected: it was the click that ended a drag.
C9_Witness ==
    /\ lastOp.op = "click"
    /\ lastOp.ray = <<"front">>
    /\ selectedWallId # "front"
    /\ ~hasDragged

\* The editable wall under the pointer: the nearest one on the ray.
WallUnder(ray) ==
    IF MissesWalls(ray) THEN Null
    ELSE ray[CHOOSE i \in 1..Len(ray) :
                 ray[i] \in WallId /\ \A j \in 1..(i - 1) : ray[j] \notin WallId]

\* C10: after a mousemove with no button down hoveredWallId is the editable
\* wall under the pointer, or null; after a mouseleave it is null.
C10_HoverTracking ==
    [][/\ (lastOp'.op = "mousemove" /\ pressTarget = "none")
            => hoveredWallId' = WallUnder(lastOp'.ray)
       /\ lastOp'.op = "mouseleave" => hoveredWallId' = Null]_vars

(***************************************************************************)
(* Properties of the scene's objects (SceneSpec).                          *)
(***************************************************************************)
\* C11: once initScene has run, the mesh of each editable wall carries the
\* highlight material if the wall is the hovered one and its original
\* material if it is not.
C11_HoverHighlight ==
    phase = "running" =>
        \A w \in WallId :
            wallMeshes[w] = IF hoveredWallId = w THEN "hover" ELSE "original"

\* C12: once initScene has run, the perimeter group of a wall is visible
\* exactly when the wall is the selected one.
C12_PerimeterMarksSelected ==
    phase = "running" =>
        \A w \in WallId : (perimeterLines[w] = "visible") <=> (selectedWallId = w)

\* C13: once initScene has run, the scene holds one mesh for each of the six
\* ids and one perimeter group for each of the four editable walls, and
\* they are the ones in the two maps.
C13_SixMeshesFourGroups ==
    phase = "running" =>
        /\ \A id \in MeshId : sceneMeshes[id] = 1 /\ wallMeshes[id] # "none"
        /\ \A w \in WallId : sceneGroups[w] = 1 /\ perimeterLines[w] # "none"

\* C13 witness: the room has been rebuilt for a new height and again for a
\* new spacing of the front wall.
C13_Witness ==
    /\ phase = "running"
    /\ lastOp.op = "setSpacing"
    /\ room.height = Num(3)
    /\ wallConfigs["front"].spacing = 0
    /\ \A id \in MeshId : sceneMeshes[id] = 1

(***************************************************************************)
(* Properties of the camera (LookSpec).                                    *)
(***************************************************************************)
\* C14: once initScene has run, the camera is at x = 0, z = 0 and at the y
\* for which twice the distance up to 1.8 is the room's height:
\* 2 * (1.8 - y) = h, that is y = -h/2 + 1.8.
C14_CameraAtEyeLevel ==
    phase = "running" =>
        /\ cameraPosition.x = Num(0)
        /\ cameraPosition.z = Num(0)
        /\ LET up == Plus(Milli(1800), Neg(cameraPosition.y))
           IN  Norm(2 * up.m, up.k) = room.height

\* The pitch in thousandths of a step of 0.005 radians: pi/2 is 314.159
\* steps.
PitchMilliSteps(p) ==
    1000 * p.steps + (IF p.base = "+pi/2" THEN 314159
                      ELSE IF p.base = "-pi/2" THEN -314159 ELSE 0)

C16_LatestInputWins ==
    (phase = "running" /\ throttleLog.called /\ timers = {}) =>
        /\ throttleLog.invokedArgs = throttleLog.lastArgs
        /\ wallConfigs[selectedWallId].spacing = throttleLog.lastArgs[1]

\* C17: the first call invokes the function at once; an invocation comes at
\* least the delay after the invocation before it; and at most one timer
\* is pending.
C17_ThrottleLimitsFrequency ==
    [][/\ (lastOp'.op = "spacingInput" /\ ~throttleLog.called) =>
              (throttleLog'.invoked /\ throttleLog'.invokedAt = now)
       /\ (lastOp'.op \in {"spacingInput", "timerFires"} /\ lastOp'.write # "none"
             /\ throttleLog.invoked) =>
              now - throttleLog.invokedAt >= 150
       /\ Cardinality(timers') <= 1]_vars

(***************************************************************************)
(* Properties of lib/storage.ts (LibrarySpec).                             *)
(***************************************************************************)
\* Where loadFromStorage returns null: the item is absent or is not JSON.
ReturnsNull(st, key) == st[key] \in {Absent, NotJson}

\* C18: storage failures are contained.  No call of saveToStorage,
\* loadFromStorage, removeFromStorage or clearStorage ends with an exception
\* leaving it.  loadFromStorage returns null for an item that is absent or
\* not JSON, and a store that loads such an item keeps what it had: the
\* defaults in the constructor, and those same values in main.tsx.  A save
\* that fails leaves localStorage as it was, with the store already
\* updated; a remove or a clear that fails leaves localStorage as it was.
C18_FailuresContained ==
    [][/\ lastOp'.write # "threw"
       /\ lastOp'.read # "threw"
       /\ \A key \in STORAGE_KEYS :
             ReturnsNull(storage, key) => loadFromStorage(storage, key) = <<>>
       /\ lastOp'.op = "construct" =>
             /\ ReturnsNull(storage, ROOM) => room' = DEFAULT_ROOM_DIMENSIONS
             /\ ReturnsNull(storage, WALLS) => wallConfigs' = DefaultWallConfigs
             /\ ReturnsNull(storage, SELECTED_WALL) => selectedWallId' = Null
       /\ lastOp'.op = "mainLoad" =>
             /\ ReturnsNull(storage, ROOM) => room' = room
             /\ ReturnsNull(storage, WALLS) => wallConfigs' = wallConfigs
             /\ ReturnsNull(storage, SELECTED_WALL) => selectedWallId' = selectedWallId
       /\ lastOp'.write = "failed" =>
             /\ storage' = storage
             /\ lastOp'.op = "setWidth" => room' = [room EXCEPT !.width = Num(0)]
             /\ lastOp'.op = "setSpacing" =>
                   wallConfigs' = ConfigsAfterUpdate(wallConfigs, lastOp'.wallId,
                                                     lastOp'.config[1])
             /\ lastOp'.op = "selectWall" => selectedWallId' = "back"
             /\ lastOp'.op = "deselectWall" => selectedWallId' = Null
      ]_vars

\* A save failed after a page loaded over a walls item that is not JSON:
\* the walls are the defaults with the new spacing, and the item is as it
\* was.
C18_Witness ==
    /\ lastOp.op = "setSpacing" /\ lastOp.write = "failed"
    /\ wallConfigs = ConfigsAfterUpdate(DefaultWallConfigs, "front", [spacing |-> 0])
    /\ storage[WALLS] = NotJson

(***************************************************************************)
(* Properties of the tile settings (ConfigSpec).                           *)
(***************************************************************************)
\* C19: tile settings are per wall.  A call of updateWallConfig(w, partial),
\* made directly or by one of the four setters, gives each field named in
\* partial its new value in the configuration of w and leaves alone the
\* other fields of w, the configurations of the other three walls,
\* selectedWallId and hoveredWallId.
C19_SettingsPerWall ==
    [][lastOp'.op \in ConfigSetters =>
          LET w == lastOp'.wallId
              partial == lastOp'.config[1]
          IN  /\ \A f \in TileFields :
                    wallConfigs'[w][f] =
                        IF f \in DOMAIN partial THEN partial[f] ELSE wallConfigs[w][f]
              /\ \A other \in WallId \ {w} : wallConfigs'[other] = wallConfigs[other]
              /\ selectedWallId' = selectedWallId
              /\ hoveredWallId' = hoveredWallId
      ]_vars

\* The image of the back wall, restored with settings of its own, was
\* removed while the left wall was selected and the front wall hovered.
C19_Witness ==
    /\ lastOp.op = "setTileImage" /\ lastOp.wallId = "back"
    /\ wallConfigs["back"] = [StoredConfigs["back"] EXCEPT !.imageUrl = Null]
    /\ selectedWallId = "left"
    /\ hoveredWallId = "front"

(***************************************************************************)
(* Properties of selection and hover together (Spec).                      *)
(***************************************************************************)
\* The handlers that call setHoveredWall: handleHover from the mousemove
\* listener, and the mouseleave listener.
HoverOps == {"mousemove", "mouseleave"}

\* C20: selection and hover are independent.  A step that calls
\* setHoveredWall changes neither selectedWallId nor any item of
\* localStorage; a step that calls selectWall (a click) or deselectWall
\* does not change hoveredWallId; and deselectWall leaves selectedWallId
\* null and with it selectedWallConfig null.
C20_SelectionHoverIndependent ==
    [][/\ lastOp'.op \in HoverOps =>
             selectedWallId' = selectedWallId /\ storage' = storage
       /\ lastOp'.op \in {"click", "selectWall", "deselectWall"} =>
             hoveredWallId' = hoveredWallId
       /\ lastOp'.op = "deselectWall" =>
             selectedWallId' = Null /\ selectedWallConfig' = <<>>
      ]_vars

\* The selected wall was deselected while a wall was hovered: the hover
\* stays and the stored selection is null.
C20_Witness ==
    /\ lastOp.op = "deselectWall"
    /\ hoveredWallId = "front"
    /\ selectedWallId = Null
    /\ storage[SELECTED_WALL] = JsonNull

(***************************************************************************)
(* Properties of the perimeter dashes (DashSpec).                          *)
(***************************************************************************)
\* The closed path around a wall of half sides x and y, walked from the
\* top left corner along the top edge, down the right edge, back along the
\* bottom edge and up the left edge: the edge that holds the unit of the
\* path that begins at s, and where that unit begins along the edge.
PathLength(x, y) == 4 * (x + y)

PathUnit(x, y, s) ==
    IF s < 2 * x THEN [edge |-> "top", at |-> s - x]
    ELSE IF s < 2 * x + 2 * y THEN [edge |-> "right", at |-> y - (s - 2 * x) - 1]
    ELSE IF s < 4 * x + 2 * y THEN [edge |-> "bottom", at |-> x - (s - 2 * x - 2 * y) - 1]
    ELSE [edge |-> "left", at |-> (s - 4 * x - 2 * y) - y]

\* The unit of the path that begins at s lies within a dash of the group.
Covered(group, x, y, s) ==
    LET unit == PathUnit(x, y, s)
    IN  \E i \in DOMAIN group :
            /\ group[i].edge = unit.edge
            /\ group[i].start <= unit.at
            /\ unit.at + 1 <= group[i].end

\* The unit at s is within a dash of the pattern of phase t: dashes of
\* dashLength and gaps of gapLength along the path, from t on and around.
OnPattern(s, t, length) ==
    (((s - t) + length) % length) % segmentLength < dashLength

\* C21: the dashes built for a wall of positive width and height are the
\* dashes of length d, gaps of length g apart, of one pattern along the
\* closed path of length 2(W+H), continuing across the corners and around,
\* for some phase t in [0, 2(W+H)).
C21_DashesFollowClosedPath ==
    (calc.fn = "createWallPerimeterLine" /\ calc.args[1] > 0 /\ calc.args[2] > 0) =>
        LET x == calc.args[1]
            y == calc.args[2]
        IN  \E t \in 0..(PathLength(x, y) - 1) :
                \A s \in 0..(PathLength(x, y) - 1) :
                    Covered(calc.out, x, y, s) <=> OnPattern(s, t, PathLength(x, y))

\* The dashes of one edge, in the order they were added.
OnEdge(group, edge) == SelectSeq(group, LAMBDA dash : dash.edge = edge)

\* The side of the wall an edge runs along, in units: the width for the top
\* and the bottom, the height for the left and the right.
EdgeLength(size, edge) ==
    IF edge \in {"top", "bottom"} THEN 2 * size[1] ELSE 2 * size[2]

FracIsProduct(a, b, c) == a.n * b.d * c.d = b.n * c.n * a.d

\* C22: for an editable wall of sx by sy metres and a configuration with
\* positive tile sizes, with an image or without, with a spacing or
\* without, the texture has repeatX = sx / ((tileWidth + spacing) / 1000)
\* and repeatY = sy / ((tileHeight + spacing) / 1000).
C22_RepeatFollowsTileSize ==
    calc.fn = "createWall" =>
        LET size == calc.args[1]
            config == calc.args[2]
            repeat == calc.out.repeat
        IN  (config.tileWidth > 0 /\ config.tileHeight > 0) =>
                /\ FracIsProduct(size[1], repeat[1],
                                 Frac(config.tileWidth + config.spacing, 1000))
                /\ FracIsProduct(size[2], repeat[2],
                                 Frac(config.tileHeight + config.spacing, 1000))

(***************************************************************************)
(* Properties of lib/math.ts (TileCountSpec).                              *)
(***************************************************************************)
\* n tiles of tileSize, a gap of spacing between neighbours, fit in the
\* dimension.
Fits(n, roomDimension, tileSize, spacing) ==
    n * tileSize + (n - 1) * spacing <= roomDimension

\* C23: for tileSize > 0, spacing >= 0 and roomDimension >= 0,
\* calculateTileCount returns the largest n >= 0 such that n tiles with a
\* gap between neighbours fit; for tileSize <= 0 or spacing < 0 it returns
\* 0.
C23_CountsTilesThatFit ==
    calc.fn = "calculateTileCount" =>
        LET roomDimension == calc.args[1]
            tileSize == calc.args[2]
            spacing == calc.args[3]
            n == calc.out
        IN  /\ (tileSize <= 0 \/ spacing < 0) => n = 0
            /\ (tileSize > 0 /\ spacing >= 0 /\ roomDimension >= 0) =>
                  /\ n >= 0
                  /\ Fits(n, roomDimension, tileSize, spacing)
                  /\ ~Fits(n + 1, roomDimension, tileSize, spacing)

(***************************************************************************)
(* Properties of the walls' placement (PlacementSpec).                     *)
(***************************************************************************)
\* The point (x, y, z) doubled
Doubled(position) ==
    Vec(Plus(position.x, position.x), Plus(position.y, position.y),
        Plus(position.z, position.z))

\* C26: for a room of (width, height, length), front and back are width x
\* height planes at z = -length/2 and z = +length/2, left and right are
\* length x height planes at x = -width/2 and x = +width/2, ceiling and
\* floor are width x length planes at y = +height/2 and y = -height/2, the
\* dimensions taken as metres as they are stored; each mesh carries its
\* id in userData.wallId.
C26_WallPlacement ==
    calc.fn = "updateRoom" =>
        LET r == calc.args
            mesh == calc.out
            zero == Num(0)
        IN  /\ \A id \in MeshId : mesh[id].wallId = id
            /\ mesh["front"].size = <<r.width, r.height>>
            /\ mesh["back"].size = <<r.width, r.height>>
            /\ mesh["left"].size = <<r.length, r.height>>
            /\ mesh["right"].size = <<r.length, r.height>>
            /\ mesh["top"].size = <<r.width, r.length>>
            /\ mesh["bottom"].size = <<r.width, r.length>>
            /\ Doubled(mesh["front"].position) = Vec(zero, zero, Neg(r.length))
            /\ Doubled(mesh["back"].position) = Vec(zero, zero, r.length)
            /\ Doubled(mesh["left"].position) = Vec(Neg(r.width), zero, zero)
            /\ Doubled(mesh["right"].position) = Vec(r.width, zero, zero)
            /\ Doubled(mesh["top"].position) = Vec(zero, r.height, zero)
            /\ Doubled(mesh["bottom"].position) = Vec(zero, Neg(r.height), zero)

\* A room of 3 m by 2.5 m by 4 m: the left wall is 4 m by 2.5 m at
\* x = -1.5, the floor at y = -1.25.
C26_Witness ==
    /\ calc.fn = "updateRoom"
    /\ calc.args = Dims(Num(3), Milli(2500), Num(4))
    /\ calc.out["left"] =
          WallMesh("left", Vec(Milli(-1500), Num(0), Num(0)), <<Num(4), Milli(2500)>>)
    /\ calc.out["bottom"].position = Vec(Num(0), Milli(-1250), Num(0))

(***************************************************************************)
(* Properties of the hover during a drag (Spec).                           *)
(***************************************************************************)
\* C28: a mousemove on the container while the button that was pressed on
\* the container is still down changes neither hoveredWallId nor the
\* material of any wall mesh, whatever the ray then meets.
C28_HoverFrozenInDrag ==
    [][(lastOp'.op = "mousemove" /\ pressTarget = "container") =>
          hoveredWallId' = hoveredWallId /\ wallMeshes' = wallMeshes]_vars

\* The front wall was hovered when the button went down, and a mousemove
\* with the button down met the back wall: the hover is still the front
\* wall's.
C28_Witness ==
    /\ lastOp.op = "mousemove" /\ lastOp.ray = <<"back">>
    /\ pressTarget = "container"
    /\ hoveredWallId = "front"
    /\ wallMeshes["front"] = "hover"

\* C29: once initScene has run, mouseDownPosition of scene.ts is non-null
\* exactly when isDragging of createOrbitControls is true.
C29_DragTrackingAgrees ==
    phase = "running" => ((mouseDownPosition # <<>>) <=> isDragging)

(***************************************************************************)
(* Properties of the throttled inputs under selection changes (EditSpec).  *)
(***************************************************************************)
EditUntouched(wallId) ==
    \A w \in WallId \ {wallId} : wallConfigs'[w] = wallConfigs[w]

\* C30: an invocation of setSpacing or setGroutColor made by an input, at
\* once or from a timer, updates the wall that was selected when the value
\* was typed, with that value, and the configuration of no other wall.
C30_EditLandsOnItsWall ==
    [][/\ lastOp'.op \in {"spacingInput", "groutColorInput"} =>
              /\ EditUntouched(selectedWallId)
              /\ lastOp'.wallId \in {Null, selectedWallId}
       /\ lastOp'.op = "timerFires" =>
              \E timer \in timers \ timers' :
                  /\ lastOp'.wallId = timer.wallId
                  /\ EditUntouched(timer.wallId)
                  /\ wallConfigs'[timer.wallId].spacing = timer.args
       /\ lastOp'.op = "groutTimerFires" =>
              \E timer \in groutThrottle.timers \ groutThrottle'.timers :
                  /\ lastOp'.wallId = timer.wallId
                  /\ EditUntouched(timer.wallId)
                  /\ wallConfigs'[timer.wallId].groutColor = timer.args]_vars

\* A timer set while the front wall was selected has fired after the back
\* wall was selected: the front wall has the spacing typed, the back wall
\* its own.
C30_Witness ==
    /\ lastOp.op = "timerFires" /\ lastOp.wallId = "front"
    /\ selectedWallId = "back"
    /\ wallConfigs["front"].spacing = 5
    /\ wallConfigs["back"].spacing = DEFAULT_TILE_CONFIG.spacing

(***************************************************************************)
(* Properties of the walls' materials (MaterialSpec).                      *)
(***************************************************************************)
\* C24: a highlighted wall whose configuration has a spacing shows, in its
\* hover clone, what its original material shows, whenever the composite
\* texture arrives.
C24_HoverKeepsTexture ==
    \A w \in WallId :
        (wallMeshes[w] = "hover" /\ wallConfigs[w].spacing > 0) =>
            materialMaps[w].hover = materialMaps[w].original

\* C25: when updateRoom has cleared a build, the original material of each
\* of its editable walls has been disposed once, and so has the hover clone
\* of a wall that was highlighted.
C25_MaterialsReleased ==
    [][lastOp'.disposed # NoDisposals =>
          \A w \in WallId :
              wallMeshes[w] # "none" =>
                  /\ lastOp'.disposed[w].original = 1
                  /\ lastOp'.disposed[w].hover = IF wallMeshes[w] = "hover" THEN 1 ELSE 0]_vars
====
